---------------------------- MODULE Spec2Model ----------------------------
(***************************************************************************)
(* Web Apps Menubar (Electron): the site registry and settings store, the  *)
(* session partition manager, the popover surface lifecycle of the main    *)
(* process, the pinned-window manager and the IPC command surface.         *)
(*                                                                         *)
(* A handler of the main process runs to completion on the single control  *)
(* thread, so one action is one handler, split only where the code awaits. *)
(* The handlers are written as operators from a state record to a state    *)
(* record (Cur is the current state, Commit(r) installs r), composed the   *)
(* way the code calls them.  r.thrown records an exception in flight.      *)
(*                                                                         *)
(* The application is checked subsystem by subsystem: SpecPopover (the     *)
(* popover surface), SpecPin (pinned windows), SpecDelete (site:delete and *)
(* the commands that interleave with it), SpecSurface (surfaces and their  *)
(* partitions), SpecSession (the session manager) and SpecStore (the store *)
(* and its import/export); Spec is the whole application.                  *)
(***************************************************************************)
EXTENDS Integers, Sequences, FiniteSets, TLC

VARIABLES
    sites,               \* electron-store key 'sites': sequence of Site records
    settings,            \* electron-store key 'settings': AppSettings (partial record)
    window,              \* main: popover BrowserWindow: "none", "hidden", "visible",
                         \* "destroyed" (closed, the variable not cleared)
    currentBrowserView,  \* main: handle of the active surface, or NULL
    currentSiteId,       \* main: id of the active site, or NULL
    pinnedWindows,       \* PinManager: site id -> [window, view]
    pinnedTrays,         \* PinManager: site id -> tray handle
    adBlockEnabled,      \* SessionManager: process-wide flag
    activeSessions,      \* SessionManager: set of tracked partition names
    views,               \* Electron: live BrowserViews, handle -> record
    wins,                \* Electron: standalone windows not yet gone, handle -> record
    trays,               \* Electron: live per-site Tray icons, handle -> record
    filters,             \* Electron: partitions with an onBeforeRequest listener
    partitionData,       \* Electron: stored items, each [partition, site]
    permissionHandlers,  \* Electron: partitions with a permission request handler
    everHanded,          \* history: partitions ever returned by getSessionForSite
    nextId,              \* stands for generateId: the next id siteStore.add assigns
    pending,             \* suspended async handlers: set of records
    phase,               \* "launching", "ready"
    now,                 \* Date.now()
    files,               \* file system: path -> content (a document or garbage)
    log                  \* events of the handler that ran last, in order

vars == <<sites, settings, window, currentBrowserView, currentSiteId,
          pinnedWindows, pinnedTrays, adBlockEnabled, activeSessions,
          views, wins, trays, filters, partitionData, permissionHandlers,
          everHanded, nextId, pending, phase, now, files, log>>

-----------------------------------------------------------------------------
(* Bounds of the model *)

MaxGen == 2        \* ids assigned by siteStore.add in one run
MaxWins == 2       \* standalone windows existing at the same time
MaxTrays == 2      \* per-site tray icons existing at the same time
MaxTime == 1       \* clock ticks in one run
MaxRegistry == 2   \* registry length up to which sites are added
MaxPending == 1    \* async handlers suspended at the same time

NULL == 0

-----------------------------------------------------------------------------
(* Generic helpers for partial records (JavaScript objects) *)

Has(o, k) == k \in DOMAIN o

\* o[k], or d when the property is absent (undefined)
Get(o, k, d) == IF k \in DOMAIN o THEN o[k] ELSE d

\* { ...a, ...b }
Spread(a, b) ==
    [k \in (DOMAIN a) \cup (DOMAIN b) |-> IF k \in DOMAIN b THEN b[k] ELSE a[k]]

\* Map.delete / removal of one key
Without(f, k) == [x \in (DOMAIN f) \ {k} |-> f[x]]

\* Map.set
With(f, k, v) == [x \in (DOMAIN f) \cup {k} |-> IF x = k THEN v ELSE f[x]]

EmptyMap == [x \in {} |-> NULL]

\* the value of a property that is absent, where the code reads one
UNDEFINED == "undefined"

Range(s) == {s[i] : i \in DOMAIN s}

\* Array.prototype.filter on a sequence
RECURSIVE FilterSeq(_, _)
FilterSeq(s, keep) ==
    IF s = <<>> THEN <<>>
    ELSE IF Head(s) \in keep THEN <<Head(s)>> \o FilterSeq(Tail(s), keep)
         ELSE FilterSeq(Tail(s), keep)


-----------------------------------------------------------------------------
(* The state record the handlers work on *)

Cur(inj) ==
    [sites |-> sites, settings |-> settings, window |-> window,
     currentBrowserView |-> currentBrowserView, currentSiteId |-> currentSiteId,
     pinnedWindows |-> pinnedWindows, pinnedTrays |-> pinnedTrays,
     adBlockEnabled |-> adBlockEnabled, activeSessions |-> activeSessions,
     views |-> views, wins |-> wins, trays |-> trays, filters |-> filters,
     partitionData |-> partitionData, permissionHandlers |-> permissionHandlers,
     everHanded |-> everHanded,
     nextId |-> nextId, pending |-> pending, phase |-> phase, now |-> now,
     files |-> files,
     log |-> <<>>,          \* the handler starts with an empty event list
     thrown |-> FALSE,      \* an exception is propagating
     error |-> "",          \* what the exception in flight reports
     inject |-> inj,        \* which Electron call fails in this handler
     ret |-> NULL,          \* value returned by the last call
     gone |-> {}]           \* handles of the objects this handler destroyed

Commit(r) ==
    /\ Cardinality(DOMAIN r.wins) <= MaxWins
    /\ Cardinality(DOMAIN r.trays) <= MaxTrays
    /\ r.nextId <= MaxGen + 1
    /\ sites' = r.sites
    /\ settings' = r.settings
    /\ window' = r.window
    /\ currentBrowserView' = r.currentBrowserView
    /\ currentSiteId' = r.currentSiteId
    /\ pinnedWindows' = r.pinnedWindows
    /\ pinnedTrays' = r.pinnedTrays
    /\ adBlockEnabled' = r.adBlockEnabled
    /\ activeSessions' = r.activeSessions
    /\ views' = r.views
    /\ wins' = r.wins
    /\ trays' = r.trays
    /\ filters' = r.filters
    /\ partitionData' = r.partitionData
    /\ permissionHandlers' = r.permissionHandlers
    /\ everHanded' = r.everHanded
    /\ nextId' = r.nextId
    /\ pending' = r.pending
    /\ phase' = r.phase
    /\ now' = r.now
    /\ files' = r.files
    /\ log' = r.log

Emit(r, ev) == [r EXCEPT !.log = Append(@, ev)]

\* (variant) an object constructor that hands a destroyed object out again
StaleHandle(r, kind, live) ==
    CHOOSE h \in 1..(Cardinality(live) + 1) :
        /\ h \notin live
        /\ \A k \in 1..(h - 1) : k \in live

\* a handle for a new Electron object: one no live object has and none that
\* this handler has seen destroyed
FreshHandle(r, kind, live) ==
    LET used == live \cup {g[2] : g \in {x \in r.gone : x[1] = kind}}
    IN CHOOSE h \in 1..(Cardinality(used) + 1) :
          /\ h \notin used
          /\ \A k \in 1..(h - 1) : k \in used

Throw(r, what) == [r EXCEPT !.thrown = TRUE, !.error = what]

-----------------------------------------------------------------------------
(* store.ts: siteStore *)

DEFAULT_SETTINGS ==
    [userAgentMode |-> "desktop", windowWidth |-> 800, windowHeight |-> 600]

\* Array.prototype.findIndex(site => site.id === id), 1-based; 0 when absent
FindIndex(ss, id) ==
    IF \E i \in DOMAIN ss : ss[i].id = id
    THEN CHOOSE i \in DOMAIN ss :
            /\ ss[i].id = id
            /\ \A j \in 1..(i - 1) : ss[j].id # id
    ELSE 0

siteStore_has(ss, id) == FindIndex(ss, id) # 0

\* the record Array.prototype.find returns (callers test siteStore_has first)
siteStore_getById(ss, id) == ss[FindIndex(ss, id)]

\* `${Date.now()}-${Math.random()...}`: a token no earlier call returned
generateId(r) == r.nextId

siteStore_add(r, input) ==
    LET newSite == Spread(input, [id |-> generateId(r),
                                  createdAt |-> r.now, updatedAt |-> r.now])
    IN [r EXCEPT !.sites = Append(@, newSite),
                 !.nextId = @ + 1,
                 !.ret = newSite.id]

\* (variant) an update that stamps both timestamps
updateRestamped(r, id, updates) ==
    LET index == FindIndex(r.sites, id)
    IN IF index = 0 THEN [r EXCEPT !.ret = 0]
       ELSE LET updatedSite ==
                    Spread(Spread(r.sites[index], updates),
                           [createdAt |-> r.now, updatedAt |-> r.now])
            IN [r EXCEPT !.sites[index] = updatedSite, !.ret = index]

\* returns the index of the updated site in ret, 0 for null
siteStore_update(r, id, updates) ==
    LET index == FindIndex(r.sites, id)
    IN IF index = 0 THEN [r EXCEPT !.ret = 0]
       ELSE LET updatedSite ==
                    Spread(Spread(r.sites[index], updates), [updatedAt |-> r.now])
            IN [r EXCEPT !.sites[index] = updatedSite, !.ret = index]

siteStore_delete(r, id) ==
    LET filtered == FilterSeq(r.sites, {s \in Range(r.sites) : s.id # id})
    IN IF Len(filtered) = Len(r.sites) THEN [r EXCEPT !.ret = FALSE]
       ELSE [r EXCEPT !.sites = filtered, !.ret = TRUE]

(* store.ts: settingsStore *)

settingsStore_update(r, updates) ==
    [r EXCEPT !.settings = Spread(@, updates)]

settingsStore_reset(r) == [r EXCEPT !.settings = DEFAULT_SETTINGS]

(* store.ts: importExport *)

\* path.dirname of a path <<directory, file name>>
dirname(filePath) == filePath[1]

\* the text of an object: its members "key": value, in no particular order
JSON_members(o) == {<<k, o[k]>> : k \in DOMAIN o}

\* the object a text of members denotes
JSON_object(members) ==
    [k \in {m[1] : m \in members} |-> (CHOOSE m \in members : m[1] = k)[2]]

\* JSON.stringify of ExportData, whose sites are an array of flat objects and
\* whose settings are a flat object of strings, numbers and booleans
JSON_stringify(value) ==
    [kind |-> "json",
     text |-> JSON_members(
                [value EXCEPT !.sites = [i \in DOMAIN @ |-> JSON_members(@[i])],
                              !.settings = JSON_members(@)])]

JSON_valid(content) == content.kind = "json"

\* JSON.parse of a valid text (it throws on any other)
JSON_parse(content) ==
    LET o == JSON_object(content.text)
    IN [k \in DOMAIN o |->
          IF k = "sites" THEN [i \in DOMAIN o[k] |-> JSON_object(o[k][i])]
          ELSE IF k = "settings" THEN JSON_object(o[k])
          ELSE o[k]]

ExportData(r) ==
    [version |-> "1.0.0", exportedAt |-> r.now,
     sites |-> r.sites, settings |-> r.settings]

exportToJson(r) == JSON_stringify(ExportData(r))

\* (variant) a replace import that keeps the settings it finds
ImportDataKeepSettings(r, content, merge) ==
    IF ~JSON_valid(content) THEN Throw(r, "JSON.parse")
    ELSE [r EXCEPT !.sites = Get(JSON_parse(content), "sites", <<>>)]

\* (variant) a merge import that takes the settings of the document as they are
ImportDataOverwrite(r, content, merge) ==
    IF ~JSON_valid(content) THEN Throw(r, "JSON.parse")
    ELSE LET data == JSON_parse(content)
             existingUrls == {r.sites[i].url : i \in DOMAIN r.sites}
             imported == Get(data, "sites", <<>>)
         IN [r EXCEPT !.sites = IF merge
                                THEN @ \o FilterSeq(imported,
                                       {x \in Range(imported) : x.url \notin existingUrls})
                                ELSE imported,
                      !.settings = Get(data, "settings", DEFAULT_SETTINGS)]

\* (variant) a merge import that appends every imported site
ImportDataAppend(r, content, merge) ==
    IF ~JSON_valid(content) THEN Throw(r, "JSON.parse")
    ELSE LET data == JSON_parse(content)
         IN IF ~merge
            THEN [r EXCEPT !.sites = Get(data, "sites", <<>>),
                           !.settings = Get(data, "settings", DEFAULT_SETTINGS)]
            ELSE [r EXCEPT !.sites = @ \o Get(data, "sites", <<>>),
                           !.settings = Spread(@, Get(data, "settings", EmptyMap))]

\* (variant) an import that stamps the sites it reads with the current time
ImportDataRestamped(r, content, merge) ==
    IF ~JSON_valid(content) THEN Throw(r, "JSON.parse")
    ELSE LET data == JSON_parse(content)
             imported == Get(data, "sites", <<>>)
         IN [r EXCEPT !.sites = [i \in DOMAIN imported |->
                                    Spread(imported[i], [updatedAt |-> r.now + 1])],
                      !.settings = Get(data, "settings", DEFAULT_SETTINGS)]

\* the body shared by importFromFile (after the read) and importFromJson
\* from JSON.parse on
ImportData(r, content, merge) ==
    IF ~JSON_valid(content) THEN Throw(r, "JSON.parse")
    ELSE LET data == JSON_parse(content)
         IN IF ~merge
            THEN [r EXCEPT !.sites = Get(data, "sites", <<>>),
                           !.settings = Get(data, "settings", DEFAULT_SETTINGS)]
            ELSE LET existingSites == r.sites
                     existingUrls == {existingSites[i].url : i \in DOMAIN existingSites}
                     imported == Get(data, "sites", <<>>)
                     newSites == FilterSeq(imported,
                                   {x \in Range(imported) : x.url \notin existingUrls})
                 IN [r EXCEPT !.sites = existingSites \o newSites,
                              !.settings = Spread(@, Get(data, "settings", EmptyMap))]

importFromJson(r, jsonString, merge) == ImportData(r, jsonString, merge)

\* (variant) an import that records the path before it reads the file
importPathFirst(r, filePath, merge) ==
    LET r0 == settingsStore_update(r, [lastExportPath |-> filePath[1]])
    IN IF filePath \notin DOMAIN r.files THEN Throw(r0, "readFile")
       ELSE ImportData(r0, r.files[filePath], merge)

\* importFromFile once fs.promises.readFile has settled
importFromFile(r, filePath, merge) ==
    IF filePath \notin DOMAIN r.files THEN Throw(r, "readFile")
    ELSE LET r1 == ImportData(r, r.files[filePath], merge)
         IN IF r1.thrown THEN r1
            ELSE settingsStore_update(r1, [lastExportPath |-> dirname(filePath)])

\* exportToFile up to its await: the data written is the data of this moment
exportToFile_begin(r, filePath) ==
    [r EXCEPT !.pending = @ \cup {[kind |-> "export", path |-> filePath,
                                   text |-> JSON_stringify(ExportData(r))]}]

\* exportToFile once fs.promises.writeFile has settled
exportToFile(r, p) ==
    IF r.inject = "writeFile" THEN Throw(r, "writeFile")
    ELSE settingsStore_update(
            [r EXCEPT !.files = With(@, p.path, p.text)],
            [lastExportPath |-> dirname(p.path)])

-----------------------------------------------------------------------------
(* common/types.ts *)

USER_AGENTS ==
    [desktop |-> "Mozilla/5.0 (Macintosh; Intel Mac OS X 10_15_7) Chrome/120.0.0.0",
     mobile |-> "Mozilla/5.0 (iPhone; CPU iPhone OS 17_0 like Mac OS X) Mobile/15E148"]

\* USER_AGENTS[mode]; undefined for a mode that is no key
UserAgentOf(mode) ==
    IF mode \in DOMAIN USER_AGENTS THEN USER_AGENTS[mode] ELSE UNDEFINED

\* a string is the sequence of its characters
AD_BLOCK_DOMAINS ==
    {
      <<"d", "o", "u", "b", "l", "e", "c", "l", "i", "c", "k", ".", "n", "e", "t">>,
      <<"g", "o", "o", "g", "l", "e", "s", "y", "n", "d", "i", "c", "a", "t", "i", "o", "n", ".", "c", "o", "m">>,
      <<"g", "o", "o", "g", "l", "e", "a", "d", "s", "e", "r", "v", "i", "c", "e", "s", ".", "c", "o", "m">>,
      <<"g", "o", "o", "g", "l", "e", "-", "a", "n", "a", "l", "y", "t", "i", "c", "s", ".", "c", "o", "m">>,
      <<"g", "o", "o", "g", "l", "e", "t", "a", "g", "m", "a", "n", "a", "g", "e", "r", ".", "c", "o", "m">>,
      <<"g", "o", "o", "g", "l", "e", "t", "a", "g", "s", "e", "r", "v", "i", "c", "e", "s", ".", "c", "o", "m">>,
      <<"f", "a", "c", "e", "b", "o", "o", "k", ".", "c", "o", "m", "/", "t", "r">>,
      <<"c", "o", "n", "n", "e", "c", "t", ".", "f", "a", "c", "e", "b", "o", "o", "k", ".", "n", "e", "t">>,
      <<"p", "l", "a", "t", "f", "o", "r", "m", ".", "t", "w", "i", "t", "t", "e", "r", ".", "c", "o", "m">>,
      <<"s", "t", "a", "t", "i", "c", ".", "a", "d", "s", "-", "t", "w", "i", "t", "t", "e", "r", ".", "c", "o", "m">>,
      <<"a", "d", "n", "x", "s", ".", "c", "o", "m">>,
      <<"a", "d", "v", "e", "r", "t", "i", "s", "i", "n", "g", ".", "c", "o", "m">>,
      <<"a", "d", "s", "y", "s", "t", "e", "m", ".", "c", "o", "m">>,
      <<"a", "m", "a", "z", "o", "n", "-", "a", "d", "s", "y", "s", "t", "e", "m", ".", "c", "o", "m">>,
      <<"c", "a", "s", "a", "l", "e", "m", "e", "d", "i", "a", ".", "c", "o", "m">>,
      <<"c", "r", "i", "t", "e", "o", ".", "c", "o", "m">>,
      <<"o", "u", "t", "b", "r", "a", "i", "n", ".", "c", "o", "m">>,
      <<"t", "a", "b", "o", "o", "l", "a", ".", "c", "o", "m">>,
      <<"q", "u", "a", "n", "t", "s", "e", "r", "v", "e", ".", "c", "o", "m">>,
      <<"s", "c", "o", "r", "e", "c", "a", "r", "d", "r", "e", "s", "e", "a", "r", "c", "h", ".", "c", "o", "m">>,
      <<"m", "o", "a", "t", "a", "d", "s", ".", "c", "o", "m">>,
      <<"p", "u", "b", "m", "a", "t", "i", "c", ".", "c", "o", "m">>,
      <<"r", "u", "b", "i", "c", "o", "n", "p", "r", "o", "j", "e", "c", "t", ".", "c", "o", "m">>,
      <<"h", "o", "t", "j", "a", "r", ".", "c", "o", "m">>,
      <<"c", "r", "a", "z", "y", "e", "g", "g", ".", "c", "o", "m">>,
      <<"m", "o", "u", "s", "e", "f", "l", "o", "w", ".", "c", "o", "m">>,
      <<"m", "i", "x", "p", "a", "n", "e", "l", ".", "c", "o", "m">>,
      <<"s", "e", "g", "m", "e", "n", "t", ".", "c", "o", "m">>,
      <<"n", "e", "w", "r", "e", "l", "i", "c", ".", "c", "o", "m">>
    }

(* String.prototype.toLowerCase and String.prototype.includes *)

UpperCase ==
    <<"A", "B", "C", "D", "E", "F", "G", "H", "I", "J", "K", "L", "M",
      "N", "O", "P", "Q", "R", "S", "T", "U", "V", "W", "X", "Y", "Z">>

LowerCase ==
    <<"a", "b", "c", "d", "e", "f", "g", "h", "i", "j", "k", "l", "m",
      "n", "o", "p", "q", "r", "s", "t", "u", "v", "w", "x", "y", "z">>

toLowerCase(str) ==
    [i \in DOMAIN str |->
        IF \E k \in DOMAIN UpperCase : UpperCase[k] = str[i]
        THEN LowerCase[CHOOSE k \in DOMAIN UpperCase : UpperCase[k] = str[i]]
        ELSE str[i]]

includes(str, search) ==
    \E i \in 0..(Len(str) - Len(search)) :
        \A k \in 1..Len(search) : str[i + k] = search[k]

-----------------------------------------------------------------------------
(* sessionManager.ts: SessionManager, and the Electron sessions it drives *)

\* (variant) one partition for every site
SharedPartition(siteId) == <<"persist:site-", NULL>>

\* `persist:site-${siteId}`
PartitionName(siteId) == <<"persist:site-", siteId>>

\* sess.webRequest.onBeforeRequest(null)
removeAdBlockFromSession(flt, partitionName) == flt \ {partitionName}

\* (variant) a setup that removes the listener and installs none
setupWithoutListener(flt, partitionName) ==
    removeAdBlockFromSession(flt, partitionName)

\* removes the listener in place, then installs the ad filter
setupAdBlockForSession(flt, partitionName) ==
    removeAdBlockFromSession(flt, partitionName) \cup {partitionName}

\* the listener setupAdBlockForSession installs: TRUE for { cancel: true }
adBlockListener(url) ==
    LET lower == toLowerCase(url)
    IN \E domain \in AD_BLOCK_DOMAINS : includes(lower, toLowerCase(domain))

\* what becomes of a request made in a partition: TRUE when it is cancelled;
\* a session without a listener lets every request pass
onBeforeRequest(flt, partitionName, url) ==
    IF partitionName \in flt THEN adBlockListener(url) ELSE FALSE

\* the permissions a page may ask for
Permissions == {"media", "geolocation", "notifications", "fullscreen"}

\* the handler setupPermissionsForSite installs: what it passes to callback
permissionRequestHandler(permission) ==
    LET denyPermissions == {"media", "geolocation"}
    IN permission \notin denyPermissions

setupPermissionsForSite(r, siteId) ==
    [r EXCEPT !.permissionHandlers = @ \cup {PartitionName(siteId)}]

\* what becomes of a permission request made in a partition: TRUE when it is
\* granted; Electron grants every request of a session that has no handler
permissionRequest(handlers, partitionName, permission) ==
    IF partitionName \in handlers THEN permissionRequestHandler(permission)
    ELSE TRUE

\* the partition name is left in ret; session.fromPartition may throw
getSessionForSite(r, siteId) ==
    LET partitionName == PartitionName(siteId)
    IN IF r.inject = "session" THEN Throw(r, "session.fromPartition")
       ELSE [r EXCEPT !.activeSessions = @ \cup {partitionName},
                      !.everHanded = @ \cup {partitionName},
                      !.filters = IF r.adBlockEnabled
                                  THEN setupAdBlockForSession(@, partitionName)
                                  ELSE @,
                      !.ret = partitionName]

RECURSIVE ApplyAdBlock(_, _, _)
\* the forEach over activeSessions of setAdBlockEnabled
ApplyAdBlock(flt, tracked, enabled) ==
    IF tracked = {} THEN flt
    ELSE LET partitionName == CHOOSE x \in tracked : TRUE
             next == IF enabled THEN setupAdBlockForSession(flt, partitionName)
                     ELSE removeAdBlockFromSession(flt, partitionName)
         IN ApplyAdBlock(next, tracked \ {partitionName}, enabled)

setAdBlockEnabled(r, enabled) ==
    [r EXCEPT !.adBlockEnabled = enabled,
              !.filters = ApplyAdBlock(@, r.activeSessions, enabled)]

isAdBlockEnabled(r) == r.adBlockEnabled

cleanupInactiveSessions(r, activeSiteIds) ==
    LET activePartitions == {PartitionName(id) : id \in activeSiteIds}
    IN [r EXCEPT !.activeSessions = {x \in @ : x \in activePartitions}]

\* what clearSiteData has done once its last await has settled: cookies,
\* cache and storage of the partition are gone
clearSiteData_done(r, siteId) ==
    [r EXCEPT !.partitionData = {d \in @ : d.partition # PartitionName(siteId)}]

-----------------------------------------------------------------------------
(* main.ts: the popover surface *)

\* live surfaces created by createBrowserView (for the popover window)
PopoverViews(vs) == {v \in DOMAIN vs : vs[v].owner = "popover"}

\* a method is called on the popover window after Electron has destroyed it
\* (the variable still refers to it): 'Object has been destroyed'
WindowDestroyed(r) == r.window = "destroyed"

\* the new view's handle is left in ret
createBrowserView(r, site) ==
    IF r.window = "none" THEN Throw(r, "Window not initialized")
    ELSE
    LET userAgent == UserAgentOf(Get(r.settings, "userAgentMode", UNDEFINED))
        r1 == getSessionForSite(r, site.id)
    IN IF r1.thrown THEN r1
       ELSE IF r1.inject = "view" THEN Throw(r1, "new BrowserView")
       ELSE LET v == FreshHandle(r1, "view", DOMAIN r1.views)
                browserView == [site |-> site.id, partition |-> r1.ret,
                                userAgent |-> userAgent, url |-> site.url,
                                owner |-> "popover", attached |-> FALSE,
                                load |-> IF r1.inject = "load" THEN "failed"
                                         ELSE "loading"]
                vs == With(r1.views, v, browserView)
                r2 == Emit([r1 EXCEPT !.views = vs, !.ret = v],
                           [op |-> "createBrowserView", site |-> site.id,
                            live |-> Cardinality(PopoverViews(vs))])
            IN IF WindowDestroyed(r1)
               THEN \* window.getSize() raises: the view exists and is dropped
                    Throw([r1 EXCEPT !.views =
                              With(@, v, [browserView EXCEPT !.load = "none"])],
                          "Object has been destroyed")
               ELSE
               \* loadURL refuses the url at once: its promise is rejected and
               \* the catch logs the error (once the handler has returned)
               IF r1.inject = "load"
               THEN Emit(r2, [op |-> "console.error", view |-> v,
                              site |-> site.id, raised |-> r2.thrown])
               ELSE r2

\* (variant) a switch that leaves the old surface alive
skipDestroy(r) == r

destroyCurrentBrowserView(r) ==
    IF r.currentBrowserView # NULL /\ r.window # "none"
    THEN IF WindowDestroyed(r)
         THEN \* window.removeBrowserView(currentBrowserView) raises
              Throw(r, "Object has been destroyed")
         ELSE
         LET vs == Without(r.views, r.currentBrowserView)
         IN Emit([r EXCEPT !.views = vs,
                           !.gone = @ \cup {<<"view", r.currentBrowserView>>},
                           !.currentBrowserView = NULL,
                           !.currentSiteId = NULL],
                 [op |-> "destroyBrowserView", view |-> r.currentBrowserView,
                  live |-> Cardinality(PopoverViews(vs))])
    ELSE r

\* (variant) a main process that never tells the renderer
sendNothing(r) == r

\* window.webContents.send('navigation-state-changed', state)
sendNavigationState(r) ==
    IF r.window = "none" \/ r.currentBrowserView = NULL THEN r
    ELSE IF WindowDestroyed(r) THEN Throw(r, "Object has been destroyed")
    ELSE Emit(r, [op |-> "navigation-state-changed",
                  view |-> r.currentBrowserView,
                  url |-> r.views[r.currentBrowserView].url,
                  isLoading |-> r.views[r.currentBrowserView].load = "loading"])

\* (variant) a switch that records the active site id before it creates the
\* surface
switchIdFirst(r, siteId) ==
    IF r.window = "none" \/ ~siteStore_has(r.sites, siteId) THEN r
    ELSE
    LET r0 == destroyCurrentBrowserView(r)
        r1 == [r0 EXCEPT !.currentSiteId = siteId]
        r2 == createBrowserView(r1, siteStore_getById(r.sites, siteId))
    IN IF r0.thrown THEN r0
       ELSE IF r2.thrown THEN r2
       ELSE settingsStore_update(
               [r2 EXCEPT !.currentBrowserView = r2.ret,
                          !.views[r2.ret].attached = TRUE],
               [activeSiteId |-> siteId])

\* (variant) a switch that destroys the active surface before it looks the
\* site up
switchDestroyFirst(r, siteId) ==
    IF r.window = "none" THEN r
    ELSE
    LET r1 == destroyCurrentBrowserView(r)
    IN IF r1.thrown \/ ~siteStore_has(r.sites, siteId) THEN r1
       ELSE
       LET r2 == createBrowserView(r1, siteStore_getById(r.sites, siteId))
       IN IF r2.thrown THEN r2
          ELSE settingsStore_update(
                  [r2 EXCEPT !.currentBrowserView = r2.ret,
                             !.views[r2.ret].attached = TRUE,
                             !.currentSiteId = siteId],
                  [activeSiteId |-> siteId])

switchToSite(r, siteId) ==
    IF r.window = "none" THEN r
    ELSE IF ~siteStore_has(r.sites, siteId)
    THEN r
    ELSE
    LET site == siteStore_getById(r.sites, siteId)
        r1 == destroyCurrentBrowserView(r)
        r2 == createBrowserView(r1, site)
    IN IF r1.thrown THEN r1
       ELSE IF r2.thrown THEN r2
       ELSE LET v == r2.ret
                r3 == [r2 EXCEPT !.currentBrowserView = v,
                                 !.views[v].attached = TRUE,
                                 !.currentSiteId = siteId]
                r4 == settingsStore_update(r3, [activeSiteId |-> siteId])
            IN sendNavigationState(r4)

setUserAgentMode(r, mode) ==
    LET r1 == settingsStore_update(r, [userAgentMode |-> mode])
    IN IF r1.currentSiteId # NULL THEN switchToSite(r1, r1.currentSiteId)
       ELSE r1

-----------------------------------------------------------------------------
(* pinManager.ts: PinManager *)

\* (variant) a manager that never finds an existing entry
neverPinned(r, siteId) == FALSE

isPinned(r, siteId) == siteId \in DOMAIN r.pinnedWindows

\* a method is called on the window of an entry after that window was closed
\* (the reference dangles): the call is tolerated, or it raises 'Object has
\* been destroyed', as the handler's inject says
RaisesDestroyed(r, siteId) ==
    /\ r.inject = "destroyed"
    /\ r.pinnedWindows[siteId].window \notin DOMAIN r.wins

\* new Tray(...) and pinnedTrays.set: the try/catch swallows a failure
createTrayForPinnedWindow(r, site, w) ==
    IF r.inject = "tray"
    THEN r
    ELSE LET t == FreshHandle(r, "tray", DOMAIN r.trays)
         IN [r EXCEPT !.trays = With(@, t, [site |-> site.id, window |-> w]),
                      !.pinnedTrays = With(@, site.id, t)]

\* the window's handle is left in ret
createPinnedWindow(r, site, userAgentMode) ==
    IF isPinned(r, site.id)
    THEN LET r1 == Emit([r EXCEPT !.ret = r.pinnedWindows[site.id].window],
                        [op |-> "focus", site |-> site.id,
                         window |-> r.pinnedWindows[site.id].window])
         IN IF RaisesDestroyed(r, site.id) THEN Throw(r1, "Object has been destroyed")
            ELSE r1
    ELSE IF r.inject = "window"
    THEN Throw(Emit(r, [op |-> "new BrowserWindow", site |-> site.id]),
               "new BrowserWindow")
    ELSE
    LET w == FreshHandle(r, "window", DOMAIN r.wins)
        r0 == Emit(r, [op |-> "new BrowserWindow", site |-> site.id])
        r1 == [r0 EXCEPT !.wins = With(@, w,
                           [site |-> site.id, state |-> "open",
                            alwaysOnTop |-> Get(site, "alwaysOnTop", FALSE)])]
        r2 == getSessionForSite(r1, site.id)
    IN IF r2.thrown THEN r2
       ELSE IF r2.inject = "view" THEN Throw(r2, "new BrowserView")
       ELSE
       LET v == FreshHandle(r2, "view", DOMAIN r2.views)
           view == [site |-> site.id, partition |-> r2.ret,
                    userAgent |-> UserAgentOf(userAgentMode), url |-> site.url,
                    owner |-> "pinned", attached |-> TRUE, load |-> "loading"]
           r3 == [r2 EXCEPT !.views = With(@, v, view),
                            !.pinnedWindows = With(@, site.id,
                                                   [window |-> w, view |-> v])]
           r4 == IF Has(site, "icon") \/ Has(site, "iconPath")
                 THEN createTrayForPinnedWindow(r3, site, w)
                 ELSE r3
       IN [r4 EXCEPT !.ret = w]

closePinnedWindow(r, siteId) ==
    LET called(raised) ==
            [op |-> "closePinnedWindow", site |-> siteId, raised |-> raised]
    IN
    IF isPinned(r, siteId) /\ RaisesDestroyed(r, siteId)
    THEN \* pinnedState.window.removeBrowserView(...) raises
         Throw(Emit(r, called(TRUE)), "Object has been destroyed")
    ELSE
    LET r1 == IF isPinned(r, siteId)
              THEN LET pinnedState == r.pinnedWindows[siteId]
                       w == pinnedState.window
                   IN [r EXCEPT
                              !.views = Without(@, pinnedState.view),
                              !.gone = @ \cup {<<"view", pinnedState.view>>},
                              \* window.close() unless window.isDestroyed()
                              !.wins = IF w \in DOMAIN @
                                       THEN [@ EXCEPT ![w].state = "closing"]
                                       ELSE @,
                              !.pinnedWindows = Without(@, siteId)]
              ELSE r
    IN Emit(IF siteId \in DOMAIN r1.pinnedTrays
            THEN [r1 EXCEPT !.trays = Without(@, r1.pinnedTrays[siteId]),
                            !.gone = @ \cup {<<"tray", r1.pinnedTrays[siteId]>>},
                            !.pinnedTrays = Without(@, siteId)]
            ELSE r1,
            called(FALSE))

\* PinManager.updateTrayIcon: the old icon is destroyed and a new one made
updateTrayIcon(r, site) ==
    IF isPinned(r, site.id)
    THEN LET r1 == IF site.id \in DOMAIN r.pinnedTrays
                   THEN [r EXCEPT !.trays = Without(@, r.pinnedTrays[site.id]),
                                  !.gone = @ \cup {<<"tray", r.pinnedTrays[site.id]>>},
                                  !.pinnedTrays = Without(@, site.id)]
                   ELSE r
         IN createTrayForPinnedWindow(r1, site, r.pinnedWindows[site.id].window)
    ELSE r

\* PinManager.setAlwaysOnTop
pin_setAlwaysOnTop(r, siteId, alwaysOnTop) ==
    IF isPinned(r, siteId)
    THEN LET w == r.pinnedWindows[siteId].window
         IN IF RaisesDestroyed(r, siteId) THEN Throw(r, "Object has been destroyed")
            ELSE IF w \in DOMAIN r.wins
            THEN [r EXCEPT !.wins[w].alwaysOnTop = alwaysOnTop]
            ELSE r
    ELSE r

\* (variant) a reload that does not look for the entry first
reloadUnguarded(r, siteId) ==
    IF isPinned(r, siteId)
    THEN Emit(r, [op |-> "webContents.reload", site |-> siteId])
    ELSE Throw(r, "TypeError")

\* the helpers below call the page of the surface; the model keeps no page
\* history, so the call is what is recorded
reloadPinnedWindow(r, siteId) ==
    IF isPinned(r, siteId)
    THEN Emit(r, [op |-> "webContents.reload", site |-> siteId])
    ELSE r

goBackInPinnedWindow(r, siteId, canGoBack) ==
    IF isPinned(r, siteId) /\ canGoBack
    THEN Emit(r, [op |-> "webContents.goBack", site |-> siteId])
    ELSE r

goForwardInPinnedWindow(r, siteId, canGoForward) ==
    IF isPinned(r, siteId) /\ canGoForward
    THEN Emit(r, [op |-> "webContents.goForward", site |-> siteId])
    ELSE r

openDevToolsForPinnedWindow(r, siteId) ==
    IF isPinned(r, siteId)
    THEN Emit(r, [op |-> "webContents.openDevTools", site |-> siteId])
    ELSE r

-----------------------------------------------------------------------------
(* Inputs the commands are tried with *)

Modes == {"desktop", "mobile"}

\* ids a command may carry: ids handed out so far, and one that never was
KnownIds == 1..MaxGen

\* the id of a site that only an import file holds
ImportedId == 100 + 1

StaleId == 100 + 2

CommandIds == KnownIds \cup {StaleId}

\* CreateSiteInput
CreateInputs == {[name |-> "B", url |-> "https://b.com"]}

\* UpdateSiteInput without its id
UrlUpdates == {[url |-> "https://c.com"]}

PinnedUpdates == {[pinned |-> TRUE]}

UpdateInputs == UrlUpdates \cup PinnedUpdates

\* the Electron call that fails while a handler runs, if any
NoFaults == {"none"}

SurfaceFaults == {"none", "session", "view"}

PinFaults == {"none", "window", "session", "view", "tray"}

\* a window or a tray icon cannot be created
WindowFaults == {"none", "window", "tray"}

\* what a call on a closed window does
ClosedWindowOutcomes == {"none", "destroyed"}

ImportPath == <<"/tmp", "sites.json">>

ExportPath == <<"/home/u/Documents", "export.json">>

Paths == {ExportPath, ImportPath}

Idle == phase = "ready"

-----------------------------------------------------------------------------
(* main.ts: IPC handlers *)

\* the handlers leave what they return (or what the promise resolves to) in ret

\* (variant) a create that never activates the site it adds
createWithoutSwitch(r, input) == siteStore_add(r, input)

site_create(r, input) ==
    LET r1 == siteStore_add(r, input)
        site == r1.ret
        r2 == IF Len(r1.sites) = 1 THEN switchToSite(r1, site) ELSE r1
    IN IF r2.thrown THEN r2 ELSE [r2 EXCEPT !.ret = site]

SiteCreate(inputs, faults) ==
    \E input \in inputs, inj \in faults :
        /\ Idle
        /\ Len(sites) < MaxRegistry
        /\ Commit(site_create(Cur(inj), input))

\* (variant) an update that shows the site it has updated
updateThenShow(r, input) ==
    LET r1 == siteStore_update(r, input.id, input)
        updated == r1.ret # 0
        r2 == IF updated THEN switchToSite(r1, input.id) ELSE r1
    IN IF r2.thrown THEN r2 ELSE [r2 EXCEPT !.ret = updated]

site_update(r, input) ==
    LET r1 == siteStore_update(r, input.id, input)
        updated == r1.ret # 0
        r2 == IF updated /\ r1.currentSiteId = input.id /\ Has(input, "url")
              THEN switchToSite(r1, input.id)
              ELSE r1
    IN IF r2.thrown THEN r2 ELSE [r2 EXCEPT !.ret = updated]

SiteUpdate(ids, updates, faults) ==
    \E id \in ids, upd \in updates, inj \in faults :
        /\ Idle
        /\ Commit(site_update(Cur(inj), Spread([id |-> id], upd)))

site_switch(r, siteId) ==
    LET r1 == switchToSite(r, siteId)
    IN IF r1.thrown THEN r1 ELSE [r1 EXCEPT !.ret = TRUE]

SiteSwitch(ids, faults) ==
    \E siteId \in ids, inj \in faults :
        /\ Idle
        /\ Commit(site_switch(Cur(inj), siteId))

\* site:delete up to its first await (inside clearSiteData)
SiteDeleteBegin(ids) ==
    \E id \in ids :
        /\ Idle
        /\ Cardinality(pending) < MaxPending
        /\ LET r == Cur("none")
               r1 == IF isPinned(r, id) THEN closePinnedWindow(r, id) ELSE r
           IN Commit([r1 EXCEPT !.pending = @ \cup
                          {[kind |-> "delete", id |-> id, stage |-> "clearing",
                            \* what the site was when the command arrived
                            pinned |-> isPinned(r, id),
                            active |-> r.currentSiteId = id]}])

\* the session has finished clearing cookies, cache and storage
ClearSiteDataDone ==
    \E p \in pending :
        /\ p.kind = "delete" /\ p.stage = "clearing"
        /\ LET r == Cur("none")
               r1 == clearSiteData_done(r, p.id)
           IN Commit([r1 EXCEPT !.pending = (@ \ {p}) \cup
                                   {[p EXCEPT !.stage = "cleared"]}])

\* site:delete from the resolution of clearSiteData to its return
\* (variant) a delete that re-targets the popover before it removes the record
retargetThenDelete(r, p) ==
    LET r1 == IF r.currentSiteId = p.id
              THEN LET r3 == destroyCurrentBrowserView(r)
                   IN IF ~r3.thrown /\ Len(r3.sites) > 0
                      THEN switchToSite(r3, r3.sites[1].id)
                      ELSE r3
              ELSE r
        r2 == siteStore_delete(r1, p.id)
    IN Emit(r2, [op |-> "siteStore.delete", site |-> p.id, success |-> r2.ret,
                 pinned |-> p.pinned])

\* the rest of the handler, for the suspended call p
site_delete_resume(r, p) ==
    LET r0 == siteStore_delete(r, p.id)
        success == r0.ret
        r1 == Emit(r0, [op |-> "siteStore.delete", site |-> p.id,
                        success |-> success, pinned |-> p.pinned])
    IN IF success /\ r1.currentSiteId = p.id
       THEN LET r3 == destroyCurrentBrowserView(r1)
            IN IF ~r3.thrown /\ Len(r3.sites) > 0
               THEN switchToSite(r3, r3.sites[1].id)
               ELSE r3
       ELSE r1

SiteDeleteResume(faults) ==
    \E p \in pending, inj \in faults :
        /\ p.kind = "delete" /\ p.stage = "cleared"
        /\ Commit(site_delete_resume([Cur(inj) EXCEPT !.pending = @ \ {p}], p))

SettingsSetUserAgent(modes, faults) ==
    \E mode \in modes, inj \in faults :
        /\ Idle
        /\ Commit(setUserAgentMode(Cur(inj), mode))

\* { success: false, error: 'Site not found' }
SiteNotFound == [success |-> FALSE, error |-> "Site not found"]

pin_create(r, siteId) ==
    IF ~siteStore_has(r.sites, siteId) THEN [r EXCEPT !.ret = SiteNotFound]
    ELSE LET site == siteStore_getById(r.sites, siteId)
             r1 == createPinnedWindow(r, site, Get(r.settings, "userAgentMode", UNDEFINED))
             w == r1.ret
         IN IF r1.thrown THEN r1
            ELSE [siteStore_update(r1, siteId, [pinned |-> TRUE])
                     EXCEPT !.ret = [success |-> TRUE, windowId |-> w]]

PinCreate(ids, faults) ==
    \E siteId \in ids, inj \in faults :
        /\ Idle
        /\ Commit(pin_create(Cur(inj), siteId))

pin_close(r, siteId) ==
    LET r1 == closePinnedWindow(r, siteId)
    IN IF r1.thrown THEN r1
       ELSE [siteStore_update(r1, siteId, [pinned |-> FALSE])
                EXCEPT !.ret = [success |-> TRUE]]

PinClose(ids) ==
    \E siteId \in ids :
        /\ Idle
        /\ Commit(pin_close(Cur("none"), siteId))

pin_toggle(r, siteId) ==
    IF ~siteStore_has(r.sites, siteId) THEN [r EXCEPT !.ret = SiteNotFound]
    ELSE IF isPinned(r, siteId)
    THEN LET r1 == closePinnedWindow(r, siteId)
         IN IF r1.thrown THEN r1
            ELSE [siteStore_update(r1, siteId, [pinned |-> FALSE])
                     EXCEPT !.ret = [success |-> TRUE, pinned |-> FALSE]]
    ELSE LET site == siteStore_getById(r.sites, siteId)
             r1 == createPinnedWindow(r, site, Get(r.settings, "userAgentMode", UNDEFINED))
         IN IF r1.thrown THEN r1
            ELSE [siteStore_update(r1, siteId, [pinned |-> TRUE])
                     EXCEPT !.ret = [success |-> TRUE, pinned |-> TRUE]]

PinToggle(ids, faults) ==
    \E siteId \in ids, inj \in faults :
        /\ Idle
        /\ Commit(pin_toggle(Cur(inj), siteId))

AdblockSetEnabled ==
    \E enabled \in BOOLEAN :
        /\ Idle
        /\ LET r1 == setAdBlockEnabled(Cur("none"), enabled)
           IN Commit(settingsStore_update(r1, [adBlockEnabled |-> enabled]))

\* documents an import file may hold
ImportSite(id, url, pinned) ==
    [id |-> id, name |-> "I", url |-> url, pinned |-> pinned,
     createdAt |-> 0, updatedAt |-> 0]

AppImportDocs ==
    {[version |-> "1.0.0", exportedAt |-> 0,
      sites |-> <<ImportSite(ImportedId, "https://a.com", TRUE)>>,
      settings |-> [userAgentMode |-> "mobile", windowWidth |-> 1024,
                    windowHeight |-> 768]]}

Garbage == [kind |-> "garbage"]

\* import:fromFile up to the await of fs.promises.readFile
ImportFromFileBegin(merges) ==
    \E filePath \in DOMAIN files, merge \in merges :
        /\ Idle
        /\ Cardinality(pending) < MaxPending
        /\ Commit([Cur("none") EXCEPT !.pending = @ \cup
                      {[kind |-> "import", path |-> filePath, merge |-> merge]}])

\* try { ... return { success: true } }
\* catch (error) { return { success: false, error: error.message } }
TryCatch(r) ==
    IF r.thrown
    THEN [r EXCEPT !.thrown = FALSE,
                   !.ret = [success |-> FALSE, error |-> r.error]]
    ELSE [r EXCEPT !.ret = [success |-> TRUE]]

\* import:fromFile from the settling of the read on
import_fromFile(r, p) ==
    LET r1 == importFromFile(r, p.path, p.merge)
        r2 == IF r1.thrown THEN r1
              ELSE IF Len(r1.sites) > 0 /\ r1.currentSiteId = NULL
              THEN switchToSite(r1, r1.sites[1].id)
              ELSE r1
    IN TryCatch(r2)

\* import:fromFile from the settling of the read to its return
ImportFromFileResume(faults) ==
    \E p \in pending, inj \in faults :
        /\ p.kind = "import"
        /\ Commit(import_fromFile([Cur(inj) EXCEPT !.pending = @ \ {p}], p))

\* export:toFile up to the await of fs.promises.writeFile
ExportToFileBegin(paths) ==
    \E filePath \in paths :
        /\ Idle
        /\ Cardinality(pending) < MaxPending
        /\ Commit(exportToFile_begin(Cur("none"), filePath))

\* export:toFile from the settling of the write to its return
export_toFile(r, p) == TryCatch(exportToFile(r, p))

ExportToFileResume ==
    \E p \in pending, inj \in {"none", "writeFile"} :
        /\ p.kind = "export"
        /\ Commit(export_toFile([Cur(inj) EXCEPT !.pending = @ \ {p}], p))

-----------------------------------------------------------------------------
(* main.ts: keyboard shortcuts and window events *)

\* createWindow
createWindow(r) == [r EXCEPT !.window = "hidden"]

\* Math.round(n / 2) for an integer n: halves are rounded up
RoundHalf(n) == (n + 1) \div 2

\* showWindow: g holds process.platform and what tray.getBounds(),
\* window.getBounds() and screen.getPrimaryDisplay().bounds return
showWindow(r, g) ==
    IF r.window = "none" THEN r
    ELSE IF WindowDestroyed(r) THEN Throw(r, "Object has been destroyed")
    ELSE
    LET trayBounds == g.trayBounds
        windowBounds == g.windowBounds
        displayBounds == g.displayBounds
        x0 == RoundHalf(2 * trayBounds.x + trayBounds.width - windowBounds.width)
        y == IF g.platform = "darwin"
             THEN trayBounds.y + trayBounds.height
             ELSE trayBounds.y - windowBounds.height
        x1 == IF x0 + windowBounds.width > displayBounds.x + displayBounds.width
              THEN displayBounds.x + displayBounds.width - windowBounds.width
              ELSE x0
        x == IF x1 < displayBounds.x THEN displayBounds.x ELSE x1
    IN Emit([r EXCEPT !.window = "visible"],
            [op |-> "setPosition", x |-> x, y |-> y, geometry |-> g])

toggleWindow(r, g) ==
    LET r1 == IF r.window = "none" THEN createWindow(r) ELSE r
    IN IF WindowDestroyed(r1)
       THEN \* window.isVisible() raises
            Throw(r1, "Object has been destroyed")
       ELSE IF r1.window = "visible" THEN [r1 EXCEPT !.window = "hidden"]
       ELSE showWindow(r1, g)

\* the tray icon is clicked, or CommandOrControl+Shift+X is pressed
TrayClick(geometries) ==
    \E g \in geometries :
        /\ Idle
        /\ Commit(toggleWindow(Cur("none"), g))

\* a menu-bar icon of 22 by 22 on a display of 1920 by 1080
DefaultGeometry ==
    [platform |-> "darwin",
     trayBounds |-> [x |-> 100, y |-> 0, width |-> 22, height |-> 22],
     windowBounds |-> [width |-> 360, height |-> 400],
     displayBounds |-> [x |-> 0, y |-> 0, width |-> 1920, height |-> 1080]]

ToggleWindow == TrayClick({DefaultGeometry})

\* (variant) a cycle that stops at the last site
nextUnwrapped(ss, id) ==
    LET currentIndex == FindIndex(ss, id) - 1
    IN IF currentIndex + 1 < Len(ss) THEN currentIndex + 1 ELSE currentIndex

\* (currentIndex + 1) % sites.length, 0-based as in the source
nextIndex(ss, id) ==
    LET currentIndex == FindIndex(ss, id) - 1
    IN (currentIndex + 1) % Len(ss)

\* CommandOrControl+Tab
CycleSites(faults) ==
    \E inj \in faults :
        /\ Idle
        /\ LET r == Emit(Cur(inj), [op |-> "CommandOrControl+Tab"])
           IN IF WindowDestroyed(r)
              THEN \* window.isVisible() raises
                   Commit(Throw(r, "Object has been destroyed"))
              ELSE IF r.window = "visible" /\ Len(r.sites) > 0
              THEN LET next == r.sites[nextIndex(r.sites, r.currentSiteId) + 1]
                       r1 == switchToSite(r, next.id)
                   IN Commit(IF r1.thrown \/ r1.window = "none" THEN r1
                             ELSE Emit(r1, [op |-> "site-cycled",
                                            site |-> next.id]))
              ELSE Commit(r)

\* the popover window is closed and its 'closed' listener runs: the window
\* object the listener calls is usable, or Electron has marked it destroyed
\* before it emitted the event, as the outcome says
PopoverCloses(outcomes) ==
    \E inj \in outcomes :
        /\ Idle
        /\ window \in {"hidden", "visible"}
        /\ LET r == Cur(inj)
               r0 == IF inj = "destroyed" THEN [r EXCEPT !.window = "destroyed"]
                     ELSE r
               r1 == destroyCurrentBrowserView(r0)
               r2 == IF r1.thrown THEN r1 ELSE [r1 EXCEPT !.window = "none"]
           IN Commit(Emit(r2, [op |-> "popover closed",
                               view |-> r.currentBrowserView,
                               raised |-> r1.thrown]))

PopoverClosed == PopoverCloses(ClosedWindowOutcomes)

-----------------------------------------------------------------------------
(* pinManager.ts: events of a pinned window and of its tray menu *)

\* the user closes the standalone window: it is gone, and its 'closed'
\* listener runs closePinnedWindow(site.id)
UserClosesPinnedWindow(outcomes) ==
    \E w \in DOMAIN wins, inj \in outcomes :
        /\ Idle
        /\ wins[w].state = "open"
        /\ LET r == [Cur(inj) EXCEPT !.wins = Without(@, w),
                                      !.gone = {<<"window", w>>}]
           IN Commit(Emit(closePinnedWindow(r, wins[w].site),
                          [op |-> "closed", site |-> wins[w].site, window |-> w]))

\* a window closed by window.close() is gone: its 'closed' listener runs
PinnedWindowClosed ==
    \E w \in DOMAIN wins :
        /\ wins[w].state = "closing"
        /\ LET r == [Cur("none") EXCEPT !.wins = Without(@, w),
                                         !.gone = {<<"window", w>>}]
           IN Commit(closePinnedWindow(r, wins[w].site))

\* tray context menu, 'Close Window'
TrayCloseWindow ==
    \E t \in DOMAIN trays :
        /\ Idle
        /\ Commit(closePinnedWindow(Cur("none"), trays[t].site))

\* tray context menu, 'Enable/Disable Always on Top': the click handler of the
\* icon t flips the window it was made for and calls
\* createTrayForPinnedWindow(site, window) to make the menu anew
TrayToggleAlwaysOnTop(outcomes) ==
    \E t \in DOMAIN trays, inj \in outcomes \cup {"tray"} :
        /\ Idle
        /\ LET w == trays[t].window
               r == Cur(inj)
               clicked == [op |-> "tray:alwaysOnTop", site |-> trays[t].site, tray |-> t]
           IN IF w \notin DOMAIN wins
              THEN \* window.isAlwaysOnTop() on a closed window
                   inj # "tray"
                   /\ Commit(Emit(IF inj = "destroyed"
                                  THEN Throw(r, "Object has been destroyed")
                                  ELSE createTrayForPinnedWindow(
                                           r, [id |-> trays[t].site], w),
                                  clicked))
              ELSE Commit(Emit(createTrayForPinnedWindow(
                                   [r EXCEPT !.wins[w].alwaysOnTop = ~@],
                                   [id |-> trays[t].site], w),
                               clicked))

\* a Tray object that nothing refers to any more is destroyed when the
\* garbage collector finds it
TrayCollected ==
    \E t \in DOMAIN trays :
        /\ Idle
        /\ \A id \in DOMAIN pinnedTrays : pinnedTrays[id] # t
        /\ Commit([Cur("none") EXCEPT !.trays = Without(@, t)])

\* icon:save once iconStore.saveIcon has settled
icon_save(r, siteId) ==
    IF r.inject = "saveIcon"
    THEN TryCatch(Throw(r, "saveIcon"))
    ELSE LET iconPath == <<"icons", siteId>>
             r1 == siteStore_update(r, siteId, [iconPath |-> iconPath])
             r2 == IF siteStore_has(r1.sites, siteId) /\ isPinned(r1, siteId)
                   THEN updateTrayIcon(r1, siteStore_getById(r1.sites, siteId))
                   ELSE r1
         IN [r2 EXCEPT !.ret = [success |-> TRUE, iconPath |-> iconPath]]

-----------------------------------------------------------------------------
(* The pages shown in the surfaces *)

\* the page of a live surface stores a cookie or a storage item in the
\* session it was created with
PageStoresData ==
    \E v \in DOMAIN views :
        /\ Idle
        /\ Commit([Cur("none") EXCEPT !.partitionData = @ \cup
                      {[partition |-> views[v].partition, site |-> views[v].site]}])

-----------------------------------------------------------------------------
(* main.ts: app.whenReady *)

RECURSIVE RestorePinned(_, _, _)
\* sites.forEach(site => { if (site.pinned) ... }) from index i on
RestorePinned(r, i, mode) ==
    IF i > Len(r.sites) \/ r.thrown THEN r
    ELSE LET site == r.sites[i]
         IN IF Get(site, "pinned", FALSE)
            THEN LET r1 == createPinnedWindow(r, site, mode)
                     r2 == IF ~r1.thrown /\ Get(site, "alwaysOnTop", FALSE)
                           THEN pin_setAlwaysOnTop(r1, site.id, TRUE)
                           ELSE r1
                 IN RestorePinned(r2, i + 1, mode)
            ELSE RestorePinned(r, i + 1, mode)

WhenReady(faults) ==
    \E inj \in faults :
        /\ phase = "launching"
        /\ LET r0 == createWindow([Cur(inj) EXCEPT !.phase = "ready"])
               settings0 == r0.settings
               r1 == IF Get(settings0, "adBlockEnabled", FALSE)
                     THEN setAdBlockEnabled(r0, TRUE)
                     ELSE r0
               r2 == IF Has(settings0, "activeSiteId")
                        /\ siteStore_has(r1.sites, settings0.activeSiteId)
                     THEN switchToSite(r1, settings0.activeSiteId)
                     ELSE r1
               r3 == RestorePinned(r2, 1, Get(settings0, "userAgentMode", UNDEFINED))
           IN Commit(r3)


-----------------------------------------------------------------------------
(* The application *)

\* what the store file may hold when the application is launched
EmptyStore == [sites |-> <<>>, settings |-> DEFAULT_SETTINGS, nextId |-> 1]

PinnedStore ==
    [sites |-> <<[id |-> 1, name |-> "A", url |-> "https://a.com",
                  icon |-> "data:image/png;base64,AAAA",
                  pinned |-> TRUE, alwaysOnTop |-> TRUE,
                  createdAt |-> 0, updatedAt |-> 0]>>,
     settings |-> Spread(DEFAULT_SETTINGS,
                         [activeSiteId |-> 1, adBlockEnabled |-> TRUE]),
     nextId |-> 2]

InitialStores == {EmptyStore, PinnedStore}

InitRuntime ==
    /\ window = "none"
    /\ currentBrowserView = NULL
    /\ currentSiteId = NULL
    /\ pinnedWindows = EmptyMap
    /\ pinnedTrays = EmptyMap
    /\ adBlockEnabled = FALSE
    /\ activeSessions = {}
    /\ views = EmptyMap
    /\ wins = EmptyMap
    /\ trays = EmptyMap
    /\ filters = {}
    /\ partitionData = {}
    /\ permissionHandlers = {}
    /\ everHanded = {}
    /\ pending = {}
    /\ now = 0
    /\ log = <<>>

\* the process starts on one of the stores; the modules are loaded
Loaded(stores) ==
    /\ \E st \in stores :
          /\ sites = st.sites
          /\ settings = st.settings
          /\ nextId = st.nextId
    /\ InitRuntime

\* the application is launched
Launch(stores) ==
    /\ Loaded(stores)
    /\ phase = "launching"
    /\ files = [x \in {ImportPath} |->
                   JSON_stringify(CHOOSE d \in AppImportDocs : TRUE)]

Init == Launch(InitialStores)

Next ==
    \/ WhenReady(PinFaults)
    \/ SiteCreate(CreateInputs, SurfaceFaults)
    \/ SiteUpdate(CommandIds, UpdateInputs, SurfaceFaults)
    \/ SiteSwitch(CommandIds, SurfaceFaults)
    \/ SiteDeleteBegin(CommandIds)
    \/ ClearSiteDataDone
    \/ SiteDeleteResume(SurfaceFaults)
    \/ SettingsSetUserAgent(Modes, SurfaceFaults)
    \/ PinCreate(CommandIds, PinFaults)
    \/ PinClose(CommandIds)
    \/ PinToggle(CommandIds, PinFaults)
    \/ AdblockSetEnabled
    \/ ImportFromFileBegin(BOOLEAN)
    \/ ImportFromFileResume(SurfaceFaults)
    \/ ExportToFileBegin(Paths)
    \/ ExportToFileResume
    \/ ToggleWindow
    \/ CycleSites(SurfaceFaults)
    \/ PopoverClosed
    \/ UserClosesPinnedWindow(ClosedWindowOutcomes)
    \/ PinnedWindowClosed
    \/ TrayCloseWindow
    \/ PageStoresData

Spec == Init /\ [][Next]_vars

-----------------------------------------------------------------------------
(* The popover surface: every handler that creates or destroys it *)

NextPopover ==
    \/ WhenReady(NoFaults)
    \/ SiteCreate(CreateInputs, SurfaceFaults)
    \/ SiteUpdate(KnownIds, UrlUpdates, SurfaceFaults)
    \/ SiteSwitch(CommandIds, SurfaceFaults)
    \/ SiteDeleteBegin(KnownIds)
    \/ ClearSiteDataDone
    \/ SiteDeleteResume(SurfaceFaults)
    \/ SettingsSetUserAgent({"mobile"}, SurfaceFaults)
    \/ ImportFromFileBegin(BOOLEAN)
    \/ ImportFromFileResume(SurfaceFaults)
    \/ ToggleWindow
    \/ CycleSites(SurfaceFaults)
    \/ PopoverClosed

SpecPopover == Launch(InitialStores) /\ [][NextPopover]_vars

-----------------------------------------------------------------------------
(* Pinned windows: every handler and event that opens or closes one *)

NextPin ==
    \/ WhenReady({"none", "tray"})
    \/ SiteCreate(CreateInputs, NoFaults)
    \/ SiteUpdate(KnownIds, PinnedUpdates, NoFaults)
    \/ PinCreate(CommandIds, WindowFaults)
    \/ PinClose(CommandIds)
    \/ PinToggle(CommandIds, WindowFaults)
    \/ UserClosesPinnedWindow(ClosedWindowOutcomes)
    \/ PinnedWindowClosed
    \/ TrayCloseWindow

SpecPin == Launch(InitialStores) /\ [][NextPin]_vars

-----------------------------------------------------------------------------
(* site:delete and the commands the main process handles while it awaits *)

NextDelete ==
    \/ WhenReady(NoFaults)
    \/ SiteCreate(CreateInputs, NoFaults)
    \/ SiteSwitch(KnownIds, NoFaults)
    \/ SiteDeleteBegin(KnownIds)
    \/ ClearSiteDataDone
    \/ SiteDeleteResume(NoFaults)
    \/ PinCreate(KnownIds, NoFaults)
    \/ PinToggle(KnownIds, NoFaults)
    \/ ToggleWindow
    \/ CycleSites(NoFaults)

SpecDelete == Launch({PinnedStore}) /\ [][NextDelete]_vars

-----------------------------------------------------------------------------
(* Surfaces, popover and pinned, and the partitions their pages write to *)

NextSurface ==
    \/ WhenReady(NoFaults)
    \/ SiteCreate(CreateInputs, NoFaults)
    \/ SiteSwitch(KnownIds, NoFaults)
    \/ PinCreate(KnownIds, NoFaults)
    \/ PinClose(KnownIds)
    \/ PageStoresData
    \/ SiteDeleteBegin(KnownIds)
    \/ ClearSiteDataDone
    \/ SiteDeleteResume(NoFaults)

SpecSurface == Launch(InitialStores) /\ [][NextSurface]_vars

-----------------------------------------------------------------------------
(* The session manager, called directly *)

SessionIds == 1..MaxGen

\* URLs of requests: of an ad network, of the same network in capitals, and
\* of a page that is on no list
RequestUrls ==
    {<<"h", "t", "t", "p", "s", ":", "/", "/", "d", "o", "u", "b", "l", "e", "c", "l", "i", "c", "k", ".", "n", "e", "t", "/", "a", "d">>,
     <<"H", "T", "T", "P", "S", ":", "/", "/", "C", "R", "I", "T", "E", "O", ".", "C", "O", "M", "/", "x">>,
     <<"h", "t", "t", "p", "s", ":", "/", "/", "e", "x", "a", "m", "p", "l", "e", ".", "c", "o", "m", "/">>}

SessionGet ==
    \E siteId \in SessionIds :
        LET r == getSessionForSite(Cur("none"), siteId)
        IN Commit(Emit(r, [op |-> "getSessionForSite", site |-> siteId,
                           partition |-> r.ret]))

SessionSetAdBlockEnabled ==
    \E enabled \in BOOLEAN :
        Commit(Emit(setAdBlockEnabled(Cur("none"), enabled),
                    [op |-> "setAdBlockEnabled", enabled |-> enabled]))

SessionCleanup ==
    \E activeSiteIds \in SUBSET SessionIds :
        Commit(cleanupInactiveSessions(Cur("none"), activeSiteIds))

\* a page of the site writes to its session, which is later cleared
SessionWrite ==
    \E siteId \in SessionIds :
        /\ PartitionName(siteId) \in everHanded
        /\ Commit([Cur("none") EXCEPT !.partitionData = @ \cup
                      {[partition |-> PartitionName(siteId), site |-> siteId]}])

SessionClearSiteData ==
    \E siteId \in SessionIds :
        Commit(clearSiteData_done(Cur("none"), siteId))

\* a page makes a request in a session that was handed out
SessionRequest ==
    \E partitionName \in everHanded, url \in RequestUrls :
        Commit(Emit(Cur("none"),
                    [op |-> "request", partition |-> partitionName, url |-> url,
                     cancel |-> onBeforeRequest(filters, partitionName, url)]))

\* setupPermissionsForSite called on the manager
SessionSetupPermissions ==
    \E siteId \in SessionIds :
        Commit(setupPermissionsForSite(Cur("none"), siteId))

\* a page asks for a permission in a session that was handed out
SessionPermissionRequest ==
    \E partitionName \in everHanded, permission \in Permissions :
        Commit(Emit(Cur("none"),
                    [op |-> "permission", partition |-> partitionName,
                     permission |-> permission,
                     granted |-> permissionRequest(permissionHandlers,
                                                   partitionName, permission)]))

InitSession ==
    /\ Loaded({EmptyStore})
    /\ phase = "ready"
    /\ files = EmptyMap

NextSession ==
    \/ SessionGet
    \/ SessionSetAdBlockEnabled
    \/ SessionCleanup
    \/ SessionWrite
    \/ SessionClearSiteData
    \/ SessionRequest

SpecSession == InitSession /\ [][NextSession]_vars

-----------------------------------------------------------------------------
(* The store and its import/export, called directly, one call at a time *)

\* { sites: [S1, S2], settings: T }
StoreDoc ==
    [version |-> "1.0.0", exportedAt |-> 0,
     sites |-> <<ImportSite(ImportedId, "https://a.com", TRUE),
                 ImportSite(StaleId, "https://b.com", FALSE)>>,
     settings |-> [userAgentMode |-> "mobile", windowWidth |-> 1024,
                   windowHeight |-> 768]]

\* texts handed to importFromJson: a document, a text with neither sites nor
\* settings, and a text that is no JSON
StoreTexts ==
    {JSON_stringify(StoreDoc),
     [kind |-> "json", text |-> JSON_members([version |-> "1.0.0"])],
     Garbage}

MissingPath == <<"/tmp", "missing.json">>

StoreAdd ==
    \E input \in CreateInputs :
        /\ Len(sites) < MaxRegistry
        /\ Commit(siteStore_add(Cur("none"), input))

\* importFromJson, on a text from outside or on the text exportToJson has
\* just returned
StoreImportFromJson ==
    \E jsonString \in StoreTexts \cup {exportToJson(Cur("none"))}, merge \in BOOLEAN :
        LET r == importFromJson(Cur("none"), jsonString, merge)
        IN Commit(Emit([r EXCEPT !.thrown = FALSE],
                       [op |-> "importFromJson", merge |-> merge, ok |-> ~r.thrown,
                        exported |-> jsonString = exportToJson(Cur("none")),
                        document |-> jsonString = JSON_stringify(StoreDoc)]))

\* exportToFile from its call to the settling of its promise
StoreExportToFile ==
    \E filePath \in {ExportPath}, inj \in {"none", "writeFile"} :
        LET r0 == Cur(inj)
            r1 == exportToFile_begin(r0, filePath)
            r2 == exportToFile([r1 EXCEPT !.pending = r0.pending],
                               CHOOSE p \in r1.pending \ r0.pending : TRUE)
        IN Commit(Emit([r2 EXCEPT !.thrown = FALSE],
                       [op |-> "exportToFile", path |-> filePath,
                        settings |-> r0.settings, ok |-> ~r2.thrown]))

\* importFromFile from its call to the settling of its promise
StoreImportFromFile ==
    \E filePath \in (DOMAIN files) \cup {MissingPath}, merge \in BOOLEAN :
        LET r == importFromFile(Cur("none"), filePath, merge)
        IN Commit(Emit([r EXCEPT !.thrown = FALSE],
                       [op |-> "importFromFile", path |-> filePath,
                        merge |-> merge, ok |-> ~r.thrown]))

\* time passes
Tick ==
    /\ now < MaxTime
    /\ now' = now + 1
    /\ UNCHANGED <<sites, settings, window, currentBrowserView, currentSiteId,
                   pinnedWindows, pinnedTrays, adBlockEnabled, activeSessions,
                   views, wins, trays, filters, partitionData,
                   permissionHandlers, everHanded,
                   nextId, pending, phase, files, log>>

InitStore ==
    /\ Loaded(InitialStores)
    /\ phase = "ready"
    /\ files = [x \in {ImportPath, <<"/tmp", "notes.txt">>} |->
                   IF x = ImportPath THEN JSON_stringify(StoreDoc) ELSE Garbage]

NextStore ==
    \/ StoreAdd
    \/ StoreImportFromJson
    \/ StoreExportToFile
    \/ StoreImportFromFile
    \/ Tick

SpecStore == InitStore /\ [][NextStore]_vars

-----------------------------------------------------------------------------
(* The popover commands as the renderer sends them, with what they return *)

\* the renderer lives in the popover window (the only window with a preload
\* script): it sends a command only while that window exists
Renderer == Idle /\ window \in {"hidden", "visible"}

IpcSiteCreate ==
    \E input \in CreateInputs :
        /\ Renderer
        /\ Len(sites) < MaxRegistry
        /\ LET r == site_create(Cur("none"), input)
           IN Commit(Emit(r, [op |-> "site:create", site |-> r.ret,
                              first |-> sites = <<>>]))

IpcSiteSwitch ==
    \E siteId \in CommandIds :
        /\ Renderer
        /\ LET r == site_switch(Cur("none"), siteId)
           IN Commit(Emit(r, [op |-> "site:switch", site |-> siteId, ret |-> r.ret]))

IpcSiteDelete ==
    /\ Renderer
    /\ SiteDeleteBegin(KnownIds)

NextCommand ==
    \/ WhenReady(NoFaults)
    \/ IpcSiteCreate
    \/ IpcSiteSwitch
    \/ IpcSiteDelete
    \/ ClearSiteDataDone
    \/ SiteDeleteResume(NoFaults)
    \/ ToggleWindow
    \/ CycleSites(NoFaults)
    \/ PopoverClosed

SpecCommand == Launch(InitialStores) /\ [][NextCommand]_vars

-----------------------------------------------------------------------------
(* PinManager's helpers as their callers use them, and the pin commands *)

\* a method of the manager is called with a site id; the call is recorded
\* after what it did
ManagerCall(r, method, siteId) ==
    Emit(r, [op |-> "call", method |-> method, site |-> siteId,
             raised |-> r.thrown])

SetAlwaysOnTop ==
    \E siteId \in CommandIds, alwaysOnTop \in BOOLEAN :
        /\ Idle
        /\ Commit(ManagerCall(pin_setAlwaysOnTop(Cur("none"), siteId, alwaysOnTop),
                              "setAlwaysOnTop", siteId))

ReloadPinnedWindow ==
    \E siteId \in CommandIds :
        /\ Idle
        /\ Commit(ManagerCall(reloadPinnedWindow(Cur("none"), siteId),
                              "reloadPinnedWindow", siteId))

GoBackInPinnedWindow ==
    \E siteId \in CommandIds, canGoBack \in BOOLEAN :
        /\ Idle
        /\ Commit(ManagerCall(goBackInPinnedWindow(Cur("none"), siteId, canGoBack),
                              "goBackInPinnedWindow", siteId))

GoForwardInPinnedWindow ==
    \E siteId \in CommandIds, canGoForward \in BOOLEAN :
        /\ Idle
        /\ Commit(ManagerCall(goForwardInPinnedWindow(Cur("none"), siteId, canGoForward),
                              "goForwardInPinnedWindow", siteId))

\* pin:openDevTools
PinOpenDevTools ==
    \E siteId \in CommandIds :
        /\ Renderer
        /\ LET r == openDevToolsForPinnedWindow(Cur("none"), siteId)
           IN Commit(ManagerCall([r EXCEPT !.ret = [success |-> TRUE]],
                                 "openDevToolsForPinnedWindow", siteId))

\* pin:setAlwaysOnTop
PinSetAlwaysOnTop ==
    \E siteId \in CommandIds, alwaysOnTop \in BOOLEAN :
        /\ Renderer
        /\ LET r1 == pin_setAlwaysOnTop(Cur("none"), siteId, alwaysOnTop)
               r2 == siteStore_update(r1, siteId, [alwaysOnTop |-> alwaysOnTop])
           IN Commit([r2 EXCEPT !.ret = [success |-> TRUE]])

IpcPinCreate ==
    \E siteId \in CommandIds, inj \in WindowFaults :
        /\ Renderer
        /\ LET r == pin_create(Cur(inj), siteId)
           IN Commit(Emit(r, [op |-> "pin:create", site |-> siteId,
                              ret |-> r.ret, raised |-> r.thrown]))

IpcPinToggle ==
    \E siteId \in CommandIds, inj \in WindowFaults :
        /\ Renderer
        /\ LET r == pin_toggle(Cur(inj), siteId)
           IN Commit(Emit(r, [op |-> "pin:toggle", site |-> siteId,
                              ret |-> r.ret, raised |-> r.thrown]))

NextManager ==
    \/ WhenReady(NoFaults)
    \/ SiteCreate(CreateInputs, NoFaults)
    \/ IpcPinCreate
    \/ IpcPinToggle
    \/ PinSetAlwaysOnTop
    \/ PinOpenDevTools
    \/ SetAlwaysOnTop
    \/ ReloadPinnedWindow
    \/ GoBackInPinnedWindow
    \/ GoForwardInPinnedWindow

SpecManager == Launch(InitialStores) /\ [][NextManager]_vars

-----------------------------------------------------------------------------
(* The commands that create a surface, when Electron refuses to create it *)

\* session.fromPartition or new BrowserView throws
CreationFaults == {"none", "session", "view"}

\* what ipcMain.handle sees of a handler: its return value, or the error
\* it let escape (Electron then rejects the invoke of the renderer)
Handled(r, command, siteId) ==
    Commit(Emit(r, [op |-> command, site |-> siteId, ret |-> r.ret,
                    raised |-> r.thrown, error |-> r.error]))

SiteCreateCommand ==
    \E input \in CreateInputs, inj \in CreationFaults :
        /\ Renderer
        /\ Len(sites) < MaxRegistry
        /\ Handled(site_create(Cur(inj), input), "site:create", nextId)

SiteSwitchCommand ==
    \E siteId \in CommandIds, inj \in CreationFaults :
        /\ Renderer
        /\ Handled(site_switch(Cur(inj), siteId), "site:switch", siteId)

PinCreateCommand ==
    \E siteId \in CommandIds, inj \in CreationFaults :
        /\ Renderer
        /\ Handled(pin_create(Cur(inj), siteId), "pin:create", siteId)

PinToggleCommand ==
    \E siteId \in CommandIds, inj \in CreationFaults :
        /\ Renderer
        /\ Handled(pin_toggle(Cur(inj), siteId), "pin:toggle", siteId)

NextCreation ==
    \/ WhenReady(NoFaults)
    \/ SiteCreateCommand
    \/ SiteSwitchCommand
    \/ PinCreateCommand
    \/ PinToggleCommand

SpecCreation == Launch(InitialStores) /\ [][NextCreation]_vars

-----------------------------------------------------------------------------
(* The user-agent mode of the popover *)

\* settings:setUserAgent
SettingsSetUserAgentCommand ==
    \E mode \in Modes :
        /\ Renderer
        /\ LET r == setUserAgentMode(Cur("none"), mode)
           IN Commit(Emit([r EXCEPT !.ret = r.settings],
                          [op |-> "settings:setUserAgent", mode |-> mode]))

NextUserAgent ==
    \/ WhenReady(NoFaults)
    \/ SiteCreate(CreateInputs, NoFaults)
    \/ SiteSwitch(KnownIds, NoFaults)
    \/ SettingsSetUserAgentCommand
    \/ ImportFromFileBegin({FALSE})
    \/ ImportFromFileResume(NoFaults)
    \/ ToggleWindow

SpecUserAgent == Launch(InitialStores) /\ [][NextUserAgent]_vars

-----------------------------------------------------------------------------
(* store.ts: the registry as its callers use it *)

\* Partial<Omit<Site, 'id' | 'createdAt'>>
RegistryUpdates ==
    {[name |-> "N"], [url |-> "https://c.com", pinned |-> TRUE],
     [icon |-> "https://icon.png"]}

\* a document written on another machine, whose clock is ahead: the first
\* site of this registry as it was imported and edited there
RegistryDoc ==
    [version |-> "1.0.0", exportedAt |-> MaxTime,
     sites |-> <<[id |-> 1, name |-> "I", url |-> "https://i.com",
                  createdAt |-> 0, updatedAt |-> MaxTime]>>,
     settings |-> DEFAULT_SETTINGS]

RegistryAdd ==
    \E input \in CreateInputs :
        /\ Len(sites) < MaxRegistry
        /\ LET r == siteStore_add(Cur("none"), input)
           IN Commit(Emit(r, [op |-> "add", id |-> r.ret]))

\* siteStore.update(id, updates), and siteStore.update(input.id, input) as
\* site:update calls it
RegistryUpdate ==
    \E id \in CommandIds, u \in RegistryUpdates, asInput \in BOOLEAN :
        LET updates == IF asInput THEN Spread([id |-> id], u) ELSE u
            r == siteStore_update(Cur("none"), id, updates)
        IN Commit(Emit(r, [op |-> "update", id |-> id, updates |-> updates,
                           index |-> r.ret]))

RegistryDelete ==
    \E id \in CommandIds :
        LET r == siteStore_delete(Cur("none"), id)
        IN Commit(Emit(r, [op |-> "delete", id |-> id, ret |-> r.ret]))

\* importFromJson of the document, once the id of its site has been handed out
RegistryImport(merges) ==
    \E merge \in merges :
        /\ \A i \in DOMAIN RegistryDoc.sites : RegistryDoc.sites[i].id < nextId
        /\ LET r == importFromJson(Cur("none"), JSON_stringify(RegistryDoc), merge)
           IN Commit(Emit(r, [op |-> "importFromJson", merge |-> merge]))

NextRegistry ==
    \/ RegistryAdd
    \/ RegistryUpdate
    \/ RegistryDelete
    \/ RegistryImport(BOOLEAN)
    \/ Tick

SpecRegistry == InitStore /\ [][NextRegistry]_vars

\* the registry without merge imports: no two of its records have one id
NextRegistryDistinct ==
    \/ RegistryAdd
    \/ RegistryUpdate
    \/ RegistryDelete
    \/ RegistryImport({FALSE})
    \/ Tick

SpecRegistryDistinct == InitStore /\ [][NextRegistryDistinct]_vars

-----------------------------------------------------------------------------
(* Loading of the page of a popover surface *)

LoadOutcomes == {"done", "failed"}

\* the load started by loadURL(site.url) in createBrowserView ends: when it
\* fails, the promise is rejected and its catch logs the error; in both cases
\* 'did-stop-loading' runs its listener, sendNavigationState
LoadSettles ==
    \E v \in PopoverViews(views), outcome \in LoadOutcomes :
        /\ Idle
        /\ views[v].load = "loading"
        /\ LET r0 == [Cur("none") EXCEPT !.views[v].load = outcome]
               r1 == IF outcome = "failed"
                     THEN Emit(r0, [op |-> "console.error", view |-> v,
                                    site |-> views[v].site, raised |-> r0.thrown])
                     ELSE r0
           IN Commit(sendNavigationState(r1))

LoadFaults == {"none", "load"}

NextLoad ==
    \/ WhenReady(LoadFaults)
    \/ SiteCreate(CreateInputs, LoadFaults)
    \/ SiteSwitch(KnownIds, LoadFaults)
    \/ ToggleWindow
    \/ CycleSites(LoadFaults)
    \/ LoadSettles

SpecLoad == Launch(InitialStores) /\ [][NextLoad]_vars

-----------------------------------------------------------------------------
(* Updates of the sites, with the popover showing one of them *)

\* site:update
SiteUpdateCommand ==
    \E id \in CommandIds, upd \in UpdateInputs :
        /\ Renderer
        /\ LET input == Spread([id |-> id], upd)
               r == site_update(Cur("none"), input)
           IN Commit(Emit(r, [op |-> "site:update", input |-> input,
                              ret |-> r.ret]))

NextUpdate ==
    \/ WhenReady(NoFaults)
    \/ SiteCreate(CreateInputs, NoFaults)
    \/ SiteSwitch(KnownIds, NoFaults)
    \/ SiteUpdateCommand
    \/ ImportFromFileBegin({FALSE})
    \/ ImportFromFileResume(NoFaults)
    \/ LoadSettles

SpecUpdate == Launch(InitialStores) /\ [][NextUpdate]_vars

-----------------------------------------------------------------------------
(* Permission requests of the pages *)

\* the page of a live surface asks for a permission; the session of the
\* surface answers
PagePermissionRequest ==
    \E v \in DOMAIN views, permission \in Permissions :
        /\ Idle
        /\ Commit(Emit(Cur("none"),
                       [op |-> "permission", partition |-> views[v].partition,
                        permission |-> permission, owner |-> views[v].owner,
                        granted |-> permissionRequest(permissionHandlers,
                                                      views[v].partition,
                                                      permission)]))

\* the application: surfaces of the popover and of pinned windows
NextPermission ==
    \/ WhenReady(NoFaults)
    \/ IpcSiteCreate
    \/ IpcSiteSwitch
    \/ IpcPinCreate
    \/ AdblockSetEnabled
    \/ PagePermissionRequest

SpecPermission == Launch(InitialStores) /\ [][NextPermission]_vars

\* the session manager called directly, setupPermissionsForSite included
NextPermissionPolicy ==
    \/ SessionGet
    \/ SessionSetupPermissions
    \/ SessionPermissionRequest

SpecPermissionPolicy == InitSession /\ [][NextPermissionPolicy]_vars

-----------------------------------------------------------------------------
(* The tray icons of the pinned windows *)

IconSave(ids, faults) ==
    \E siteId \in ids, inj \in faults :
        /\ Renderer
        /\ LET r == icon_save(Cur(inj), siteId)
           IN Commit(Emit(r, [op |-> "icon:save", site |-> siteId, ret |-> r.ret]))

IconFaults == {"none", "saveIcon", "tray"}

NextTray ==
    \/ WhenReady(NoFaults)
    \/ PinCreate(KnownIds, NoFaults)
    \/ IconSave(CommandIds, IconFaults)
    \/ UserClosesPinnedWindow(ClosedWindowOutcomes)
    \/ PinnedWindowClosed
    \/ TrayCloseWindow
    \/ TrayToggleAlwaysOnTop(ClosedWindowOutcomes)
    \/ TrayCollected

SpecTray == Launch(InitialStores) /\ [][NextTray]_vars

-----------------------------------------------------------------------------
(* Launch: the stores the application may find, and app.whenReady *)

PinnedFlags == {EmptyMap} \cup {[pinned |-> b] : b \in BOOLEAN}

OnTopFlags == {EmptyMap} \cup {[alwaysOnTop |-> b] : b \in BOOLEAN}

\* the records a stored site may be, with and without the optional flags
StoredSites(id, name, url, more) ==
    {Spread(Spread(Spread([id |-> id, name |-> name, url |-> url,
                           createdAt |-> 0, updatedAt |-> 0], more), p), a) :
        p \in PinnedFlags, a \in OnTopFlags}

FirstStored ==
    StoredSites(1, "A", "https://a.com", [icon |-> "data:image/png;base64,AAAA"])

SecondStored == StoredSites(2, "B", "https://b.com", EmptyMap)

\* a record a merge import has appended: the id of the first site, which was
\* exported before its url was edited
MergedStored == StoredSites(1, "A", "https://b.com", EmptyMap)

StoresOf(registries) ==
    {[sites |-> ss, settings |-> DEFAULT_SETTINGS, nextId |-> MaxGen + 1] :
        ss \in registries}

DistinctIdStores ==
    StoresOf({<<>>} \cup {<<a>> : a \in FirstStored}
                   \cup {<<a, b>> : a \in FirstStored, b \in SecondStored})

LaunchStores ==
    DistinctIdStores \cup StoresOf({<<a, b>> : a \in FirstStored, b \in MergedStored})

LaunchFaults == {"none", "tray"}

NextLaunch == WhenReady(LaunchFaults)

SpecLaunch == Launch(LaunchStores) /\ [][NextLaunch]_vars

\* launches on the stores whose records have different ids
SpecLaunchDistinct == Launch(DistinctIdStores) /\ [][NextLaunch]_vars

-----------------------------------------------------------------------------
(* Cycling through the sites with the keyboard *)

\* stored records without the optional flags
Plain(records) ==
    {x \in records : ~Has(x, "pinned") /\ ~Has(x, "alwaysOnTop")}

ThirdStored == StoredSites(3, "C", "https://c.com", EmptyMap)

\* registries of up to three sites, and the registries a merge import has
\* left: one with the merged record last, one with a site added after it
CycleStores ==
    StoresOf({<<>>}
        \cup {<<a>> : a \in Plain(FirstStored)}
        \cup {<<a, b>> : a \in Plain(FirstStored), b \in Plain(SecondStored)}
        \cup {<<a, b, c>> : a \in Plain(FirstStored), b \in Plain(SecondStored),
                            c \in Plain(ThirdStored)}
        \cup {<<a, m>> : a \in Plain(FirstStored), m \in Plain(MergedStored)}
        \cup {<<a, m, c>> : a \in Plain(FirstStored), m \in Plain(MergedStored),
                            c \in Plain(ThirdStored)})

\* the same without the registries in which an id repeats
CycleStoresDistinct ==
    {st \in CycleStores :
        \A i, j \in DOMAIN st.sites : st.sites[i].id = st.sites[j].id => i = j}

NextCycle ==
    \/ WhenReady(NoFaults)
    \/ ToggleWindow
    \/ CycleSites(NoFaults)
    \/ SiteSwitch(1..3, NoFaults)
    \/ PopoverClosed

SpecCycle == Launch(CycleStores) /\ [][NextCycle]_vars

SpecCycleDistinct == Launch(CycleStoresDistinct) /\ [][NextCycle]_vars

-----------------------------------------------------------------------------
(* Placement of the popover under (or over) the tray icon *)

\* small screens: displays of 6 by 6 at two origins, tray icons of one or two
\* cells anywhere along the top and the bottom edge and beside the display,
\* windows up to the size of the display
Geometries ==
    [platform : {"darwin", "linux"},
     trayBounds : [x : -3..6, y : {0, 5}, width : {1, 2}, height : {1}],
     windowBounds : [width : {2, 3, 6}, height : {2, 6}],
     displayBounds : [x : {-2, 0}, y : {0}, width : {6}, height : {6}]]

NextPlacement ==
    \/ WhenReady(NoFaults)
    \/ TrayClick(Geometries)
    \/ PopoverClosed

SpecPlacement == Launch(InitialStores) /\ [][NextPlacement]_vars

-----------------------------------------------------------------------------
(* The ad-block flag: the settings and the session manager *)

\* what a settings:update may carry about ad-blocking
AdBlockUpdates == {[adBlockEnabled |-> b] : b \in BOOLEAN}

\* settings:update: return settingsStore.update(updates)
SettingsUpdate(updates) ==
    \E u \in updates :
        /\ Renderer
        /\ LET r == settingsStore_update(Cur("none"), u)
           IN Commit(Emit([r EXCEPT !.ret = r.settings],
                          [op |-> "settings:update", updates |-> u]))

NextAdBlock ==
    \/ WhenReady(NoFaults)
    \/ SiteCreate(CreateInputs, NoFaults)
    \/ AdblockSetEnabled
    \/ SettingsUpdate(AdBlockUpdates)
    \/ ImportFromFileBegin(BOOLEAN)
    \/ ImportFromFileResume(NoFaults)

SpecAdBlock == Launch(InitialStores) /\ [][NextAdBlock]_vars

-----------------------------------------------------------------------------
(* Import and export as the renderer asks for them, with what they return *)

\* a file that holds a document and a file that holds no JSON
TransferFiles ==
    [x \in {ImportPath, <<"/tmp", "notes.txt">>} |->
        IF x = ImportPath THEN JSON_stringify(CHOOSE d \in AppImportDocs : TRUE)
        ELSE Garbage]

\* import:fromFile up to the await of fs.promises.readFile
IpcImportFromFile ==
    \E filePath \in (DOMAIN files) \cup {MissingPath}, merge \in BOOLEAN :
        /\ Renderer
        /\ Cardinality(pending) < MaxPending
        /\ Commit([Cur("none") EXCEPT !.pending = @ \cup
                      {[kind |-> "import", path |-> filePath, merge |-> merge]}])

\* the read has settled: the file could be read and parsed, or not
ImportFromFileReply ==
    \E p \in pending, inj \in SurfaceFaults :
        /\ p.kind = "import"
        /\ LET r == import_fromFile([Cur(inj) EXCEPT !.pending = @ \ {p}], p)
           IN Commit(Emit(r, [op |-> "import:fromFile", ret |-> r.ret,
                              io |-> IF p.path \notin DOMAIN files THEN "unreadable"
                                     ELSE IF ~JSON_valid(files[p.path]) THEN "unparsable"
                                     ELSE "ok"]))

IpcExportToFile ==
    /\ Renderer
    /\ ExportToFileBegin({ExportPath})

\* the write has settled: the file was written, or not
ExportToFileReply ==
    \E p \in pending, inj \in {"none", "writeFile"} :
        /\ p.kind = "export"
        /\ LET r == export_toFile([Cur(inj) EXCEPT !.pending = @ \ {p}], p)
           IN Commit(Emit(r, [op |-> "export:toFile", ret |-> r.ret,
                              io |-> IF inj = "writeFile" THEN "unwritable" ELSE "ok"]))

InitTransfer ==
    /\ Loaded(InitialStores)
    /\ phase = "launching"
    /\ files = TransferFiles

NextTransfer ==
    \/ WhenReady(NoFaults)
    \/ IpcSiteCreate
    \/ IpcImportFromFile
    \/ ImportFromFileReply
    \/ IpcExportToFile
    \/ ExportToFileReply

SpecTransfer == InitTransfer /\ [][NextTransfer]_vars

-----------------------------------------------------------------------------
(* Properties *)

SurfaceEvents == {"createBrowserView", "destroyBrowserView"}

\* C1. Popover exclusivity: in every state, and after every creation and
\* destruction of a popover surface inside the handler that ran last, at most
\* one popover surface is live; when a surface is created it is the only one,
\* the old one having been destroyed before.
C1_PopoverExclusivity ==
    /\ Cardinality(PopoverViews(views)) <= 1
    /\ \A i \in DOMAIN log :
          /\ log[i].op \in SurfaceEvents => log[i].live <= 1
          /\ log[i].op = "createBrowserView" => log[i].live = 1

\* a handler has destroyed the active surface and then created the next one,
\* on a registry of two sites
C1_Witness ==
    /\ Len(sites) = 2
    /\ Cardinality(PopoverViews(views)) = 1
    /\ \E i, j \in DOMAIN log :
          /\ i < j
          /\ log[i].op = "destroyBrowserView"
          /\ log[j].op = "createBrowserView"

\* C2. Result of a switch: when a handler has completed switchToSite(s) for a
\* registered site s, exactly one popover surface exists, it was created for s
\* by this call (it is none of the surfaces that were live before), it is
\* attached, the runtime active site id is s and settings.activeSiteId = s.
C2_SwitchResult ==
    [][\A i \in DOMAIN log' :
          log'[i].op = "createBrowserView" =>
              /\ PopoverViews(views') = {currentBrowserView'}
              /\ views'[currentBrowserView'].site = log'[i].site
              /\ views'[currentBrowserView'].attached
              /\ currentBrowserView' \notin DOMAIN views
              /\ siteStore_has(sites', log'[i].site)
              /\ currentSiteId' = log'[i].site
              /\ Get(settings', "activeSiteId", NULL) = log'[i].site]_vars

\* a switch has replaced a surface: the user-agent mode was changed to mobile
\* and the surface of the active site carries the mobile user agent
C2_Witness ==
    /\ currentSiteId # NULL
    /\ Get(settings, "activeSiteId", NULL) = currentSiteId
    /\ \E i, j \in DOMAIN log :
          /\ i < j
          /\ log[i].op = "destroyBrowserView"
          /\ log[j].op = "createBrowserView"
          /\ log[j].site = currentSiteId
    /\ views[currentBrowserView].userAgent = USER_AGENTS.mobile

\* open standalone windows created for a site id
OpenWindowsOf(ws, siteId) ==
    {w \in DOMAIN ws : ws[w].site = siteId /\ ws[w].state = "open"}

PinEvents == {"focus", "new BrowserWindow"}

C4_CascadeOnDelete ==
    [][\A p \in pending :
          (/\ p.kind = "delete"
           /\ p.stage = "cleared"
           /\ p \notin pending'
           /\ p.pinned
           /\ p.active) =>
              /\ p.id \notin DOMAIN pinnedWindows'
              /\ p.id \notin DOMAIN pinnedTrays'
              /\ ~siteStore_has(sites', p.id)
              /\ \A d \in partitionData' : d.partition # PartitionName(p.id)
              /\ IF sites' = <<>>
                 THEN currentBrowserView' = NULL /\ currentSiteId' = NULL
                 ELSE currentSiteId' = sites'[1].id]_vars

\* C5. Pinned flag synchronisation: in every quiescent state of the running
\* application, a site of the registry has pinned = true if and only if a
\* pinned-window entry exists for its id.
C5_PinnedFlagSync ==
    (phase = "ready" /\ pending = {}) =>
        \A i \in DOMAIN sites :
            Get(sites[i], "pinned", FALSE) <=> (sites[i].id \in DOMAIN pinnedWindows)

\* ids of the sites the commands and the import file name
SiteIds == CommandIds \cup {ImportedId}

\* C6. Partition isolation: the partition of a site id is a function of the
\* id that differs for different ids; every live surface, popover or pinned,
\* is bound to the partition of the site it shows, and no item written by a
\* page of one site lies in the partition of a surface of another site.
C6_PartitionIsolation ==
    /\ \A a, b \in SiteIds : (PartitionName(a) = PartitionName(b)) <=> (a = b)
    /\ \A v \in DOMAIN views : views[v].partition = PartitionName(views[v].site)
    /\ \A v \in DOMAIN views : \A d \in partitionData :
          d.site # views[v].site => d.partition # views[v].partition

\* surfaces of two sites are live, one in the popover and one pinned, and a
\* page of one of them has written data
C6_Witness ==
    \E v, w \in DOMAIN views :
        /\ views[v].site # views[w].site
        /\ views[v].owner = "popover"
        /\ views[w].owner = "pinned"
        /\ \E d \in partitionData : d.site = views[v].site

\* the URL contains an entry of the list, as it is written
ContainsListedDomain(url) == \E domain \in AD_BLOCK_DOMAINS : includes(url, domain)

ReplacedFromFile(e) ==
    /\ e.op = "importFromFile"
    /\ e.path = ImportPath
    /\ ~e.merge
    /\ e.ok

\* the call was a successful replace import of StoreDoc from its text
ReplacedFromJson(e) ==
    /\ e.op = "importFromJson"
    /\ e.document
    /\ ~e.merge
    /\ e.ok

\* C8, as the specification states it. Replace import is exact: after a
\* replace import of { sites: [S1, S2], settings: T } the registry is exactly
\* [S1, S2] and the settings are T.
C8_ReplaceImportExact ==
    [][\A i \in DOMAIN log' :
          (ReplacedFromFile(log'[i]) \/ ReplacedFromJson(log'[i])) =>
              /\ sites' = StoreDoc.sites
              /\ settings' = StoreDoc.settings]_vars

\* C8, amended. After a replace import of { sites: [S1, S2], settings: T }
\* the registry is exactly [S1, S2]; the settings are T after importFromJson,
\* and T with lastExportPath set to the directory of the file after
\* importFromFile.
C8_ReplaceImportAmended ==
    [][\A i \in DOMAIN log' :
          /\ ReplacedFromJson(log'[i]) =>
                /\ sites' = StoreDoc.sites
                /\ settings' = StoreDoc.settings
          /\ ReplacedFromFile(log'[i]) =>
                /\ sites' = StoreDoc.sites
                /\ settings' = Spread(StoreDoc.settings,
                                      [lastExportPath |-> dirname(ImportPath)])]_vars

\* the document has been imported from its file in replace mode
C8_Witness ==
    /\ log # <<>>
    /\ ReplacedFromFile(log[1])
    /\ Len(sites) = 2
    /\ settings.userAgentMode = "mobile"

\* the number of sites of a registry that have the URL
CountUrl(ss, url) == Cardinality({i \in DOMAIN ss : ss[i].url = url})

ImportEvents == {"importFromFile", "importFromJson"}

\* C9. Merge import is duplicate-safe: a successful merge import leaves the
\* number of registry sites with the URL of a site that was already in the
\* registry unchanged.
C9_MergeDuplicateSafe ==
    [][\A i \in DOMAIN log' :
          (log'[i].op \in ImportEvents /\ log'[i].merge /\ log'[i].ok) =>
              \A k \in DOMAIN sites :
                  CountUrl(sites', sites[k].url) = CountUrl(sites, sites[k].url)]_vars

\* a merge import of StoreDoc has added its site of a new URL and left out
\* its site whose URL the registry had
C9_Witness ==
    /\ log # <<>>
    /\ log[1].op \in ImportEvents
    /\ log[1].merge
    /\ log[1].ok
    /\ siteStore_has(sites, StaleId)
    /\ ~siteStore_has(sites, ImportedId)
    /\ CountUrl(sites, "https://a.com") = 1

\* the last call exported to ExportPath and this one imports that file in
\* replace mode
ReimportsExport(before, e) ==
    /\ Len(before) = 1
    /\ before[1].op = "exportToFile"
    /\ before[1].ok
    /\ before[1].path = ExportPath
    /\ e.op = "importFromFile"
    /\ e.path = ExportPath
    /\ ~e.merge
    /\ e.ok

\* the call imported, in replace mode, the text exportToJson returned
ReimportsJson(e) ==
    /\ e.op = "importFromJson"
    /\ e.exported
    /\ ~e.merge
    /\ e.ok

\* C10, as the specification states it. Export/import round trip: exporting
\* and immediately re-importing the export in replace mode leaves the sites
\* and the settings what they were before the export.
C10_RoundTripExact ==
    [][\A i \in DOMAIN log' :
          /\ ReimportsJson(log'[i]) =>
                /\ sites' = sites
                /\ settings' = settings
          /\ ReimportsExport(log, log'[i]) =>
                /\ sites' = sites
                /\ settings' = log[1].settings]_vars

\* C10, amended. The round trip leaves the sites what they were, ids and
\* timestamps included; through exportToJson and importFromJson the settings
\* are what they were, and through a file they are the settings of before the
\* export with lastExportPath set to the directory of the file, which is what
\* exportToFile had left.
C10_RoundTripAmended ==
    [][\A i \in DOMAIN log' :
          /\ ReimportsJson(log'[i]) =>
                /\ sites' = sites
                /\ settings' = settings
          /\ ReimportsExport(log, log'[i]) =>
                /\ sites' = sites
                /\ settings' = Spread(log[1].settings,
                                      [lastExportPath |-> dirname(ExportPath)])
                /\ settings' = settings]_vars

\* an export has been imported again after the clock has advanced: the site
\* keeps the timestamps it had
C10_Witness ==
    /\ log # <<>>
    /\ log[1].op = "importFromFile"
    /\ log[1].path = ExportPath
    /\ ~log[1].merge
    /\ log[1].ok
    /\ sites # <<>>
    /\ JSON_parse(files[ExportPath]).sites = sites
    /\ \E k \in DOMAIN sites : sites[k].updatedAt < now

\* C11. First-site auto-activation: site.create on an empty registry makes
\* the new site the active popover site, with a surface created for it and
\* settings.activeSiteId set to it; site.create on a registry that has sites
\* adds the site and leaves the surfaces, the active surface, the active site
\* id and settings.activeSiteId as they were.
C11_FirstSiteAutoActivation ==
    [][\A i \in DOMAIN log' :
          log'[i].op = "site:create" =>
              /\ Len(sites') = Len(sites) + 1
              /\ sites'[Len(sites')].id = log'[i].site
              /\ IF log'[i].first
                 THEN /\ currentSiteId' = log'[i].site
                      /\ PopoverViews(views') = {currentBrowserView'}
                      /\ views'[currentBrowserView'].site = log'[i].site
                      /\ Get(settings', "activeSiteId", NULL) = log'[i].site
                 ELSE /\ views' = views
                      /\ currentBrowserView' = currentBrowserView
                      /\ currentSiteId' = currentSiteId
                      /\ settings' = settings]_vars

\* a second site has been created while the first one was active
C11_Witness ==
    /\ Len(sites) = 2
    /\ \E i \in DOMAIN log :
          /\ log[i].op = "site:create"
          /\ ~log[i].first
          /\ log[i].site = sites[2].id
    /\ currentSiteId = sites[1].id

\* C12. Switching to an unknown site is a no-op: site.switch with an id that
\* is not in the registry creates and destroys no surface and leaves the
\* surfaces, the active surface, the runtime active site id, the settings and
\* the registry unchanged.
C12_UnknownSwitchNoOp ==
    [][\A i \in DOMAIN log' :
          (log'[i].op = "site:switch" /\ ~siteStore_has(sites, log'[i].site)) =>
              /\ \A j \in DOMAIN log' : log'[j].op \notin SurfaceEvents
              /\ views' = views
              /\ currentBrowserView' = currentBrowserView
              /\ currentSiteId' = currentSiteId
              /\ settings' = settings
              /\ sites' = sites]_vars

\* a switch to an id that no site has was handled while a site was active
C12_Witness ==
    /\ currentSiteId # NULL
    /\ currentBrowserView \in DOMAIN views
    /\ \E i \in DOMAIN log :
          /\ log[i].op = "site:switch"
          /\ ~siteStore_has(sites, log[i].site)

TransferEvents == {"import:fromFile", "export:toFile"}

\* C13. I/O failure leaves state unchanged: when the file of import:fromFile
\* cannot be read or parsed, or the file of export:toFile cannot be written,
\* the command returns { success: false, error } and the registry and the
\* settings are what they were before the command.
C13_IoFailureUnchanged ==
    [][\A i \in DOMAIN log' :
          (log'[i].op \in TransferEvents /\ log'[i].io # "ok") =>
              /\ ~log'[i].ret.success
              /\ "error" \in DOMAIN log'[i].ret
              /\ sites' = sites
              /\ settings' = settings]_vars

\* an import of a file that holds no JSON has failed on a registry with a
\* site, after an export had recorded its path
C13_Witness ==
    /\ sites # <<>>
    /\ Has(settings, "lastExportPath")
    /\ \E i \in DOMAIN log :
          /\ log[i].op = "import:fromFile"
          /\ log[i].io = "unparsable"
          /\ ~log[i].ret.success

\* C14. Single serialization point for switches: under every interleaving of
\* site.switch, site cycling, setUserAgentMode and the re-switch of
\* site.update, the runtime active site id is set if and only if a live
\* popover surface exists, that surface is the one the active-surface
\* reference names, and it was created for exactly that site id.
C14_ActiveSurfaceConsistent ==
    /\ (currentSiteId # NULL) <=> (PopoverViews(views) # {})
    /\ (currentSiteId # NULL) <=> (currentBrowserView # NULL)
    /\ currentSiteId # NULL =>
          /\ PopoverViews(views) = {currentBrowserView}
          /\ views[currentBrowserView].site = currentSiteId

\* the URL of the active site was updated and the user-agent mode changed,
\* on a registry of two sites: the active surface shows the new URL with the
\* mobile user agent
C14_Witness ==
    /\ Len(sites) = 2
    /\ currentSiteId # NULL
    /\ views[currentBrowserView].url = "https://c.com"
    /\ views[currentBrowserView].userAgent = USER_AGENTS.mobile

\* live surfaces of pinned windows created for a site id
PinnedViewsOf(vs, siteId) ==
    {v \in DOMAIN vs : vs[v].owner = "pinned" /\ vs[v].site = siteId}

\* live tray icons created for a site id
TraysOf(ts, siteId) == {t \in DOMAIN ts : ts[t].site = siteId}

\* C15. Closing a pinned window by the user unpins it: when the 'closed'
\* listener of a window the user has closed has run, no pinned-window entry
\* exists for its site (isPinned is false), the surface of the window is
\* disposed and its tray icon destroyed.
C15_UserCloseUnpins ==
    [][\A i \in DOMAIN log' :
          log'[i].op = "closed" =>
              /\ log'[i].site \notin DOMAIN pinnedWindows'
              /\ log'[i].site \notin DOMAIN pinnedTrays'
              /\ PinnedViewsOf(views', log'[i].site) = {}
              /\ TraysOf(trays', log'[i].site) = {}]_vars

\* C16. closePinnedWindow postcondition: after a step in which
\* closePinnedWindow(id) was called, no pinned-window entry and no tray entry
\* exist for id, the surface it had is disposed and its window closed, and the
\* entries, windows, surfaces and trays of the other site ids are as before;
\* when id had no entry and no tray, no entry, surface, tray or window is
\* changed or added; in neither case is anything raised.
C16_ClosePinnedWindowPost ==
    [][\A i \in DOMAIN log' :
          log'[i].op = "closePinnedWindow" =>
              LET id == log'[i].site
              IN /\ ~log'[i].raised
                 /\ id \notin DOMAIN pinnedWindows'
                 /\ id \notin DOMAIN pinnedTrays'
                 /\ PinnedViewsOf(views', id) = {}
                 /\ TraysOf(trays', id) = {}
                 /\ \A w \in DOMAIN wins' : wins'[w].site = id => wins'[w].state = "closing"
                 /\ \A o \in (DOMAIN pinnedWindows \cup DOMAIN pinnedWindows') \ {id} :
                        /\ o \in DOMAIN pinnedWindows /\ o \in DOMAIN pinnedWindows'
                        /\ pinnedWindows'[o] = pinnedWindows[o]
                 /\ \A o \in (DOMAIN pinnedTrays \cup DOMAIN pinnedTrays') \ {id} :
                        /\ o \in DOMAIN pinnedTrays /\ o \in DOMAIN pinnedTrays'
                        /\ pinnedTrays'[o] = pinnedTrays[o]
                 /\ \A w \in DOMAIN wins \cup DOMAIN wins' :
                        (w \in DOMAIN wins => wins[w].site # id)
                        /\ (w \in DOMAIN wins' => wins'[w].site # id)
                        => /\ w \in DOMAIN wins /\ w \in DOMAIN wins'
                           /\ wins'[w] = wins[w]
                 /\ \A v \in DOMAIN views \cup DOMAIN views' :
                        (v \notin PinnedViewsOf(views, id))
                        => /\ v \in DOMAIN views /\ v \in DOMAIN views'
                           /\ views'[v] = views[v]
                 /\ \A t \in DOMAIN trays \cup DOMAIN trays' :
                        (t \notin TraysOf(trays, id))
                        => /\ t \in DOMAIN trays /\ t \in DOMAIN trays'
                           /\ trays'[t] = trays[t]
                 /\ (id \notin DOMAIN pinnedWindows /\ id \notin DOMAIN pinnedTrays) =>
                        /\ pinnedWindows' = pinnedWindows
                        /\ pinnedTrays' = pinnedTrays
                        /\ views' = views
                        /\ trays' = trays
                        /\ \A w \in DOMAIN wins' :
                               w \in DOMAIN wins /\ wins'[w] = wins[w]]_vars

PinCommands == {"pin:create", "pin:toggle"}

HasPinnedWindow(pw, ws, siteId) ==
    /\ siteId \in DOMAIN pw
    /\ pw[siteId].window \in DOMAIN ws
    /\ ws[pw[siteId].window].state = "open"

\* C18. Startup restoration: when app launch has completed, a pinned window
\* exists for every registry site with pinned = true and for no other site
\* (none of a site whose pinned flag is false or absent, none of an id that is
\* not registered), and the always-on-top state of each restored window
\* equals the alwaysOnTop flag of its site.
C18_StartupRestoration ==
    [][(phase = "launching" /\ phase' = "ready") =>
          /\ \A i \in DOMAIN sites' :
                LET site == sites'[i]
                IN /\ Get(site, "pinned", FALSE)
                        <=> HasPinnedWindow(pinnedWindows', wins', site.id)
                   /\ Get(site, "pinned", FALSE) =>
                        wins'[pinnedWindows'[site.id].window].alwaysOnTop
                            = Get(site, "alwaysOnTop", FALSE)
          /\ \A id \in DOMAIN pinnedWindows' : siteStore_has(sites', id)
          /\ \A w \in DOMAIN wins' :
                /\ wins'[w].site \in DOMAIN pinnedWindows'
                /\ pinnedWindows'[wins'[w].site].window = w]_vars

\* the calls of the step: the events of the handler that ran, none when only
\* the clock has moved
Called == IF now' = now THEN log' ELSE <<>>

\* the step was siteStore.update on an id of the registry; k is the index of
\* the record it found
UpdatedAt(k) ==
    \E i \in DOMAIN Called : Called[i].op = "update" /\ Called[i].index = k /\ k # 0

\* what C19 says of every update but the comparison of the timestamps
UpdateKeepsIdentity ==
    \A i \in DOMAIN Called :
        (Called[i].op = "update" /\ Called[i].index # 0) =>
            LET k == Called[i].index
                updates == Called[i].updates
                old == sites[k]
                new == sites'[k]
            IN /\ old.id = Called[i].id
               /\ new.id = old.id
               /\ new.createdAt = old.createdAt
               /\ new.updatedAt = now'
               /\ DOMAIN new = DOMAIN old \cup DOMAIN updates
               /\ \A f \in DOMAIN updates : new[f] = updates[f]
               /\ \A f \in DOMAIN old \ (DOMAIN updates \cup {"updatedAt"}) :
                      new[f] = old[f]
               /\ Len(sites') = Len(sites)
               /\ \A j \in DOMAIN sites : j # k => sites'[j] = sites[j]

\* an id is assigned once: add gives the new record an id no record has and
\* leaves the records it found as they were
AddAssignsId ==
    \A i \in DOMAIN Called :
        Called[i].op = "add" =>
            /\ Len(sites') = Len(sites) + 1
            /\ \A j \in DOMAIN sites : sites'[j] = sites[j]
            /\ sites'[Len(sites')].id = Called[i].id
            /\ \A j \in DOMAIN sites : sites[j].id # Called[i].id

\* C19 as stated. Site identity and timestamps: siteStore.update on an
\* existing site never changes its id or its createdAt, sets updatedAt to the
\* current time, which is never less than the previous updatedAt, applies
\* exactly the supplied fields and leaves every other site unchanged; an id
\* is assigned once by add.
C19_UpdateIdentityMonotone ==
    [][/\ UpdateKeepsIdentity
       /\ AddAssignsId
       /\ \A k \in DOMAIN sites :
             UpdatedAt(k) => sites'[k].updatedAt >= sites[k].updatedAt]_vars

\* C19, amended. The same, with the comparison of the timestamps only for a
\* record whose previous updatedAt is not later than the current time (one
\* that add or update of this process has stamped, on a clock that does not
\* go back).
C19_UpdateIdentity ==
    [][/\ UpdateKeepsIdentity
       /\ AddAssignsId
       /\ \A k \in DOMAIN sites :
             (UpdatedAt(k) /\ sites[k].updatedAt <= now)
                 => sites'[k].updatedAt >= sites[k].updatedAt]_vars

\* an update after a tick of the clock has changed a field of the first of
\* two sites and added a field to it
C19_Witness ==
    /\ Len(sites) = 2
    /\ now > 0
    /\ \E i \in DOMAIN log :
          /\ log[i].op = "update"
          /\ log[i].index = 1
          /\ "pinned" \in DOMAIN log[i].updates
          /\ sites[1].updatedAt = now
          /\ sites[1].createdAt < now
          /\ sites[2].updatedAt < now

\* the sequence without its k-th element
RemoveAt(ss, k) ==
    [j \in 1..(Len(ss) - 1) |-> IF j < k THEN ss[j] ELSE ss[j + 1]]

\* C20. Registry operations on an unknown id: siteStore.update on an id that
\* is not in the registry returns null and siteStore.delete on such an id
\* returns false, and the registry is unchanged in both cases; siteStore.delete
\* on a known id returns true and removes exactly the record with that id,
\* the remaining sites keeping their order.
C20_UnknownIdAndDelete ==
    [][\A i \in DOMAIN Called :
          /\ (Called[i].op = "update" /\ ~siteStore_has(sites, Called[i].id)) =>
                 /\ Called[i].index = 0
                 /\ sites' = sites
          /\ (Called[i].op = "delete" /\ ~siteStore_has(sites, Called[i].id)) =>
                 /\ Called[i].ret = FALSE
                 /\ sites' = sites
          /\ (Called[i].op = "delete" /\ siteStore_has(sites, Called[i].id)) =>
                 /\ Called[i].ret = TRUE
                 /\ sites' = RemoveAt(sites, FindIndex(sites, Called[i].id))]_vars

\* C21. 1:1:1 ownership of pinned resources: in every state each pinned-window
\* entry owns exactly one live surface (the one it records, made for its site
\* and recorded by no other entry) and at most one live tray icon, and every
\* live per-site tray icon is the one recorded for an existing entry; also
\* after the tray menu's always-on-top item and after icon:save.
C21_PinnedOwnership ==
    /\ \A id \in DOMAIN pinnedWindows :
          /\ pinnedWindows[id].view \in DOMAIN views
          /\ PinnedViewsOf(views, id) = {pinnedWindows[id].view}
          /\ Cardinality(TraysOf(trays, id)) <= 1
          /\ \A o \in DOMAIN pinnedWindows :
                pinnedWindows[o].view = pinnedWindows[id].view => o = id
    /\ \A t \in DOMAIN trays :
          /\ trays[t].site \in DOMAIN pinnedWindows
          /\ trays[t].site \in DOMAIN pinnedTrays
          /\ pinnedTrays[trays[t].site] = t

TrackingPermissions == {"media", "geolocation"}

\* the policy, for the requests made in a session on which
\* setupPermissionsForSite was called
HandledRequestsFollowPolicy ==
    \A i \in DOMAIN log :
        (log[i].op = "permission" /\ log[i].partition \in permissionHandlers) =>
            (log[i].granted <=> log[i].permission \notin TrackingPermissions)

\* C22. Permission policy: a permission request made by the page of a popover
\* or pinned surface is denied when it is for media (camera, microphone) or
\* geolocation and granted when it is of any other kind.
C22_PermissionPolicy ==
    \A i \in DOMAIN log :
        log[i].op = "permission" =>
            (log[i].granted <=> log[i].permission \notin TrackingPermissions)

\* C23. Load failure is not an application error: when the load of the site
\* URL fails in a surface created by switchToSite, the failure is caught
\* (nothing is raised), the switch stays completed (the surface is attached
\* and the only popover surface, the active site id and settings.activeSiteId
\* are its site) and a navigation-state event is published for it.
C23_LoadFailureCaught ==
    [][\A i \in DOMAIN log' :
          log'[i].op = "console.error" =>
              LET v == log'[i].view
              IN /\ ~log'[i].raised
                 /\ v \in DOMAIN views'
                 /\ views'[v].attached
                 /\ PopoverViews(views') = {v}
                 /\ currentBrowserView' = v
                 /\ currentSiteId' = views'[v].site
                 /\ Get(settings', "activeSiteId", NULL) = views'[v].site
                 /\ \E j \in DOMAIN log' :
                       /\ j > i
                       /\ log'[j].op = "navigation-state-changed"
                       /\ log'[j].view = v
                       /\ ~log'[j].isLoading]_vars

\* the load has failed in the surface of the second site, to which the
\* popover was switched
C23_Witness ==
    /\ currentSiteId = 2
    /\ views[currentBrowserView].load = "failed"
    /\ \E i \in DOMAIN log : log[i].op = "console.error"

CreationCommands == {"site:create", "site:switch", "pin:create", "pin:toggle"}

\* C24. Surface/partition creation failure is reported, not fatal: when
\* creating the surface or its partition throws during site.switch,
\* site.create, pin.create or pin.toggle, the handler of the command catches
\* the error and returns a result; no error escapes the handler.
C24_CreationFailureReported ==
    [][\A i \in DOMAIN Called :
          Called[i].op \in CreationCommands => ~Called[i].raised]_vars

\* the events by which a handler re-targets the popover
RetargetEvents == {"destroyBrowserView", "createBrowserView"}

\* C25. Delete ordering: within site.delete(id), the pinned window of the site
\* is closed and the data of its partition is cleared while the record is
\* still in the registry and the popover is untouched; the record is removed
\* only after both, and the popover is re-targeted (active surface destroyed,
\* first remaining site shown) only after the removal.
C25_DeleteOrdering ==
    [][/\ \A p \in pending' \ pending :
             (p.kind = "delete" /\ p.stage = "clearing") =>
                 /\ sites' = sites
                 /\ p.id \notin DOMAIN pinnedWindows'
                 /\ currentBrowserView' = currentBrowserView
                 /\ currentSiteId' = currentSiteId
       /\ \A p \in pending' \ pending :
             (p.kind = "delete" /\ p.stage = "cleared") =>
                 /\ sites' = sites
                 /\ \A d \in partitionData' : d.partition # PartitionName(p.id)
                 /\ currentBrowserView' = currentBrowserView
                 /\ currentSiteId' = currentSiteId
       /\ \A i \in DOMAIN Called :
             Called[i].op = "siteStore.delete" =>
                 /\ \E p \in pending \ pending' :
                        p.kind = "delete" /\ p.stage = "cleared"
                                          /\ p.id = Called[i].site
                 /\ \A j \in DOMAIN Called :
                        Called[j].op \in RetargetEvents =>
                            /\ j > i
                            /\ Called[i].success
                            /\ ~siteStore_has(sites', Called[i].site)]_vars

\* a pinned, active site was deleted and the popover shows the next site
C25_Witness ==
    /\ \E i \in DOMAIN log :
          /\ log[i].op = "siteStore.delete"
          /\ log[i].success
          /\ log[i].pinned
          /\ \E j \in DOMAIN log : j > i /\ log[j].op = "createBrowserView"
    /\ pending = {}

\* C26. setUserAgentMode(m): afterwards settings.userAgentMode = m; if a site
\* was active, the popover surface has been destroyed and recreated for the
\* same site with the user-agent string of mode m and the active site id is
\* unchanged; if no site was active, no surface is created.
C26_SetUserAgentMode ==
    [][\A i \in DOMAIN Called :
          Called[i].op = "settings:setUserAgent" =>
              /\ Get(settings', "userAgentMode", UNDEFINED) = Called[i].mode
              /\ IF currentSiteId # NULL
                 THEN /\ currentBrowserView \notin DOMAIN views'
                      /\ currentBrowserView' \in DOMAIN views'
                      /\ currentBrowserView' # currentBrowserView
                      /\ views'[currentBrowserView'].site = currentSiteId
                      /\ views'[currentBrowserView'].userAgent
                            = UserAgentOf(Called[i].mode)
                      /\ views'[currentBrowserView'].attached
                      /\ currentSiteId' = currentSiteId
                 ELSE /\ PopoverViews(views') = PopoverViews(views)
                      /\ currentBrowserView' = currentBrowserView
                      /\ currentSiteId' = NULL]_vars

\* C27. Implicit re-switch on URL update: a site.update that supplies a url
\* for the currently active (registered) site replaces the popover surface by
\* a new surface for that site that loads the new URL; a site.update of a site
\* that is not active, of an unknown id, or without a url leaves the popover
\* surface (the same instance, in the same condition) and the active site id
\* untouched.
C27_ImplicitReswitch ==
    [][\A i \in DOMAIN Called :
          Called[i].op = "site:update" =>
              LET input == Called[i].input
              IN IF /\ Has(input, "url")
                    /\ currentSiteId = input.id
                    /\ siteStore_has(sites, input.id)
                 THEN /\ currentBrowserView \notin DOMAIN views'
                      /\ currentBrowserView' \in DOMAIN views'
                      /\ PopoverViews(views') = {currentBrowserView'}
                      /\ views'[currentBrowserView'].site = input.id
                      /\ views'[currentBrowserView'].url = input.url
                      /\ views'[currentBrowserView'].load = "loading"
                      /\ views'[currentBrowserView'].attached
                      /\ currentSiteId' = input.id
                 ELSE /\ currentBrowserView' = currentBrowserView
                      /\ currentSiteId' = currentSiteId
                      /\ views' = views]_vars

\* the url of the active site was updated and the popover loads the new url
\* in a new surface
C27_Witness ==
    /\ \E i \in DOMAIN log :
          /\ log[i].op = "site:update"
          /\ Has(log[i].input, "url")
          /\ log[i].input.id = currentSiteId
    /\ currentBrowserView # NULL
    /\ views[currentBrowserView].url = "https://c.com"
    /\ views[currentBrowserView].load = "loading"

RECURSIVE Cycled(_, _, _)
\* the active site id after k cycle commands on registry ss, from active id
Cycled(ss, id, k) ==
    IF k = 0 THEN id
    ELSE Cycled(ss, ss[nextIndex(ss, id) + 1].id, k - 1)

\* C28. Keyboard site cycling: with the popover visible and a registry of
\* n >= 1 sites, a cycle command makes active (and shows in the popover) the
\* record that follows the active site in registry order, wrapping from the
\* last to the first, and the first record when none is active; n commands
\* in a row return to the site they started from; with the popover hidden
\* or the registry empty the command changes nothing.
C28_KeyboardCycling ==
    [][\A i \in DOMAIN Called :
          Called[i].op = "CommandOrControl+Tab" =>
              IF window = "visible" /\ sites # <<>>
              THEN LET n == Len(sites)
                       k == FindIndex(sites, currentSiteId)
                       next == sites[(k % n) + 1]
                   IN /\ sites' = sites
                      /\ currentSiteId' = next.id
                      /\ currentBrowserView' \in DOMAIN views'
                      /\ views'[currentBrowserView'].site = next.id
                      /\ views'[currentBrowserView'].url = next.url
                      /\ PopoverViews(views') = {currentBrowserView'}
                      /\ siteStore_has(sites, currentSiteId) =>
                            Cycled(sites, currentSiteId, n) = currentSiteId
              ELSE /\ sites' = sites
                   /\ settings' = settings
                   /\ window' = window
                   /\ views' = views
                   /\ currentBrowserView' = currentBrowserView
                   /\ currentSiteId' = currentSiteId]_vars

\* a cycle has wrapped from the last of three sites to the first
C28_Witness ==
    /\ Len(sites) = 3
    /\ currentSiteId = sites[1].id
    /\ \E i \in DOMAIN log : log[i].op = "site-cycled"
    /\ \E i \in DOMAIN log : log[i].op = "destroyBrowserView"

\* the call was a successful merge import of StoreDoc from its file
MergedFromFile(e) ==
    /\ e.op = "importFromFile"
    /\ e.path = ImportPath
    /\ e.merge
    /\ e.ok

\* the call was a successful merge import of StoreDoc from its text
MergedFromJson(e) ==
    /\ e.op = "importFromJson"
    /\ e.document
    /\ e.merge
    /\ e.ok

\* the sites of the document whose URL no site of the registry has, in the
\* order of the document
SitesOfNewUrl(ss, imported) ==
    FilterSeq(imported, {x \in Range(imported) :
                            \A k \in DOMAIN ss : ss[k].url # x.url})

\* the old settings overridden key by key by the imported settings
Overridden(old, imported) ==
    [k \in (DOMAIN old) \cup (DOMAIN imported) |->
        IF k \in DOMAIN imported THEN imported[k] ELSE old[k]]

\* C29, as the specification states it. Merge import preserves existing data:
\* after a merge import the registry is the old registry followed by the
\* imported sites whose URL was not already present, in import order, and the
\* settings are the old settings overridden key by key by the imported ones.
C29_MergeImportExact ==
    [][\A i \in DOMAIN Called :
          (MergedFromFile(Called[i]) \/ MergedFromJson(Called[i])) =>
              /\ sites' = sites \o SitesOfNewUrl(sites, StoreDoc.sites)
              /\ settings' = Overridden(settings, StoreDoc.settings)]_vars

\* C29, amended. After a merge import the registry is the old registry
\* followed by the imported sites whose URL was not already present, in import
\* order; the settings are the old settings overridden key by key by the
\* imported ones after importFromJson, and those with lastExportPath set to
\* the directory of the file after importFromFile.
C29_MergeImportAmended ==
    [][\A i \in DOMAIN Called :
          /\ MergedFromJson(Called[i]) =>
                /\ sites' = sites \o SitesOfNewUrl(sites, StoreDoc.sites)
                /\ settings' = Overridden(settings, StoreDoc.settings)
          /\ MergedFromFile(Called[i]) =>
                /\ sites' = sites \o SitesOfNewUrl(sites, StoreDoc.sites)
                /\ settings' = Overridden(Overridden(settings, StoreDoc.settings),
                                          [lastExportPath |-> dirname(ImportPath)])]_vars

\* the document has been merged from its file into the stored registry: the
\* stored site comes first, the imported site of a new URL after it, and the
\* settings keep the active site and take the imported user-agent mode
C29_Witness ==
    /\ log # <<>>
    /\ MergedFromFile(log[1])
    /\ Len(sites) = 2
    /\ sites[1].id = 1
    /\ sites[2].id = StaleId
    /\ Get(settings, "activeSiteId", NULL) = 1
    /\ settings.userAgentMode = "mobile"

\* the window of the size of bounds, placed at x, y, lies within the display
WithinDisplay(x, y, bounds, display) ==
    /\ display.x <= x
    /\ x + bounds.width <= display.x + display.width
    /\ display.y <= y
    /\ y + bounds.height <= display.y + display.height

\* the window is centred on the tray icon, or lies against the edge of the
\* display that the centred window would cross
CentredAndClamped(x, g) ==
    LET centred == RoundHalf(2 * g.trayBounds.x + g.trayBounds.width
                               - g.windowBounds.width)
        leftmost == g.displayBounds.x
        rightmost == g.displayBounds.x + g.displayBounds.width - g.windowBounds.width
    IN x = IF centred < leftmost THEN leftmost
           ELSE IF centred > rightmost THEN rightmost
           ELSE centred

\* the horizontal half of the placement
HorizontalPlacement ==
    \A i \in DOMAIN log :
        log[i].op = "setPosition" =>
            LET g == log[i].geometry
            IN g.windowBounds.width <= g.displayBounds.width =>
                  /\ CentredAndClamped(log[i].x, g)
                  /\ g.displayBounds.x <= log[i].x
                  /\ log[i].x + g.windowBounds.width
                        <= g.displayBounds.x + g.displayBounds.width

\* C30. Popover placement: for all integer tray bounds, window sizes and
\* primary-display bounds with the window not larger than the display,
\* showWindow places the popover horizontally centred on the tray icon and
\* clamped, so that the whole window rectangle lies within the bounds of the
\* primary display, horizontally and vertically.
C30_PopoverPlacement ==
    \A i \in DOMAIN log :
        log[i].op = "setPosition" =>
            LET g == log[i].geometry
            IN (/\ g.windowBounds.width <= g.displayBounds.width
                /\ g.windowBounds.height <= g.displayBounds.height) =>
                  /\ CentredAndClamped(log[i].x, g)
                  /\ WithinDisplay(log[i].x, log[i].y, g.windowBounds,
                                   g.displayBounds)

\* C31. destroyCurrentBrowserView is idempotent: called when there is no
\* active surface it changes nothing; called when there is one it disposes
\* that surface and clears the surface reference and the active site id; a
\* second call right after it is a no-op; no surface is disposed twice. The
\* calls are the one the 'closed' listener of the popover window makes, the
\* ones the handler that ran last has made, and the one a handler would make
\* in the state reached.
C31_DestroyIdempotent ==
    [][/\ LET r == Cur("none")
              r1 == destroyCurrentBrowserView(r)
              r2 == destroyCurrentBrowserView(r1)
          IN /\ ~r1.thrown
             /\ IF currentBrowserView = NULL THEN r1 = r
                ELSE /\ r1.currentBrowserView = NULL
                     /\ r1.currentSiteId = NULL
                     /\ currentBrowserView \notin DOMAIN r1.views
             /\ r2 = r1
       /\ \A i \in DOMAIN Called :
             Called[i].op = "popover closed" =>
                 /\ ~Called[i].raised
                 /\ currentBrowserView' = NULL
                 /\ currentSiteId' = NULL
                 /\ Called[i].view # NULL => Called[i].view \notin DOMAIN views'
       /\ \A i, j \in DOMAIN Called :
             (/\ Called[i].op = "destroyBrowserView"
              /\ Called[j].op = "destroyBrowserView"
              /\ Called[i].view = Called[j].view) => i = j
       /\ \A i \in DOMAIN Called :
             Called[i].op = "destroyBrowserView" =>
                 Called[i].view \in DOMAIN views]_vars

\* C32. Delete is atomic with respect to interleaved commands: whatever was
\* handled while site:delete(id) was suspended at its await (pin:create,
\* pin:toggle, site:switch, the cycle shortcut), when site:delete has
\* completed there is no pinned-window entry, no tray and no popover surface
\* for id, and id is not in the registry.
C32_DeleteAtomic ==
    [][\A i \in DOMAIN Called :
          Called[i].op = "siteStore.delete" =>
              LET id == Called[i].site
              IN /\ ~siteStore_has(sites', id)
                 /\ id \notin DOMAIN pinnedWindows'
                 /\ id \notin DOMAIN pinnedTrays'
                 /\ \A t \in DOMAIN trays' : trays'[t].site # id
                 /\ \A v \in PopoverViews(views') : views'[v].site # id
                 /\ currentSiteId' # id]_vars

\* C33. A stale close notification never tears down a newer window: when the
\* 'closed' event of a window W1 that closePinnedWindow closed is delivered
\* while its site is pinned again with another window W2, the entry of W2,
\* its surface, its tray and W2 itself are left as they were.
C33_StaleCloseHarmless ==
    [][\A w \in DOMAIN wins :
          (/\ wins[w].state = "closing"
           /\ w \notin DOMAIN wins'
           /\ wins[w].site \in DOMAIN pinnedWindows
           /\ pinnedWindows[wins[w].site].window # w)
          => LET s == wins[w].site
                 e == pinnedWindows[s]
             IN /\ s \in DOMAIN pinnedWindows'
                /\ pinnedWindows'[s] = e
                /\ e.view \in DOMAIN views'
                /\ e.window \in DOMAIN wins => /\ e.window \in DOMAIN wins'
                                               /\ wins'[e.window] = wins[e.window]
                /\ s \in DOMAIN pinnedTrays => /\ s \in DOMAIN pinnedTrays'
                                               /\ pinnedTrays'[s] = pinnedTrays[s]
                                               /\ pinnedTrays[s] \in DOMAIN trays']_vars

\* C34. Persisted and runtime active site agree: in every quiescent state
\* (the app is ready and no handler is suspended) settings.activeSiteId is
\* the runtime active site id, and is absent when no site is active.
C34_ActiveSitePersisted ==
    (phase = "ready" /\ pending = {}) =>
        Get(settings, "activeSiteId", NULL) = currentSiteId

\* C35. The active site is always a registered site: in every quiescent
\* state the runtime active site id, when set, is the id of a record of the
\* registry, and so is the site id of every pinned-window entry.
C35_ActiveSiteRegistered ==
    (phase = "ready" /\ pending = {}) =>
        /\ currentSiteId # NULL => siteStore_has(sites, currentSiteId)
        /\ \A id \in DOMAIN pinnedWindows : siteStore_has(sites, id)

\* C36. Site ids are unique: after any sequence of siteStore.add, update,
\* delete and import (replace or merge) no two records of the registry have
\* the same id.
C36_UniqueIds ==
    \A i, j \in DOMAIN sites : sites[i].id = sites[j].id => i = j

\* C37. No leaked surfaces or windows: every live surface is the popover's
\* active surface or the surface of exactly one pinned-window entry, and
\* every standalone window that is open is the window of exactly one entry,
\* also after a handler in which the creation of a partition or of a surface
\* raised.
C37_NoLeak ==
    /\ \A v \in DOMAIN views :
          \/ v = currentBrowserView
          \/ Cardinality({id \in DOMAIN pinnedWindows :
                             pinnedWindows[id].view = v}) = 1
    /\ \A w \in DOMAIN wins :
          wins[w].state = "open" =>
              Cardinality({id \in DOMAIN pinnedWindows :
                             pinnedWindows[id].window = w}) = 1

\* C38. No filter while ad-blocking is off: whenever the ad-block flag is
\* disabled no partition that was ever handed out has the request filter
\* installed, and whenever it is enabled every tracked partition has it.
C38_FilterFollowsFlag ==
    /\ ~adBlockEnabled => \A p \in everHanded : p \notin filters
    /\ adBlockEnabled => \A p \in activeSessions : p \in filters

\* the half of C38 about the enabled flag
C38_TrackedFiltered ==
    adBlockEnabled => \A p \in activeSessions : p \in filters

\* C39. Persisted and effective ad-block flag agree: in every quiescent state
\* after startup initialisation, settings.adBlockEnabled is true exactly when
\* sessionManager.isAdBlockEnabled() is.
C39_AdBlockFlagPersisted ==
    (phase = "ready" /\ pending = {}) =>
        (Get(settings, "adBlockEnabled", FALSE) = TRUE
            <=> isAdBlockEnabled([adBlockEnabled |-> adBlockEnabled]))

\* C40. Always-on-top of a pinned window is persisted: in every quiescent
\* state, for every registered site that has an open pinned window, the
\* registry's alwaysOnTop flag of the site is the always-on-top state of that
\* window.
C40_AlwaysOnTopPersisted ==
    (phase = "ready" /\ pending = {}) =>
        \A id \in DOMAIN pinnedWindows :
            LET w == pinnedWindows[id].window
            IN (/\ w \in DOMAIN wins
                /\ wins[w].state = "open"
                /\ siteStore_has(sites, id))
               => Get(siteStore_getById(sites, id), "alwaysOnTop", FALSE)
                      = wins[w].alwaysOnTop

=============================================================================
